---- MODULE Spec2Model ----
(***************************************************************************)
(* Polly's polyhedral model builder: ScopInfo.cpp (Scop, ScopStmt,         *)
(* MemoryAccess, SCEVAffinator) and the facts of TempScopInfo.cpp that it  *)
(* consumes.  isl objects are modelled by their spaces (parameter          *)
(* identifiers in order, tuple names, dimensions) and by the constraints   *)
(* the code puts on them; their meaning is given by evaluation operators.  *)
(***************************************************************************)
EXTENDS Integers, Sequences, FiniteSets, TLC

\* ------------------------------------------------------------------ bounds
\* Largest number of region-tree nodes below the maximal region, when the
\* facts of every block are the same (the traversal is what varies) ...
MaxTokens == 6
\* ... and when the facts of the blocks vary as well.
MaxFactTokens == 3
\* Calls of Scop::realignParams that are followed.
MaxRealigns == 2
\* Largest number of operands of a product handed to the translator.
MaxOperands == 3
\* Iterators range over 0..MaxIter when a set or map is evaluated.
MaxIter == 1
\* Parameters range over 0..MaxParamVal when a set or map is evaluated.
MaxParamVal == 2
\* Calls of the clients of the pass (getters, setters, stride queries) that are
\* followed.
MaxCalls == 3
\* Calls of ScopInfo::runOnRegion that are followed.
MaxRuns == 2
\* Largest dimension index whose decimal form is looked at.
MaxDimension == 120
\* The widest constant of which every bit pattern is translated.
MaxWidth == 3
\* Users of a definition in the extraction pass.
MaxUsers == 2

\* ------------------------------------------------------------- small helpers
Range(s) == {s[i] : i \in DOMAIN s}

Abs(x) == IF x < 0 THEN -x ELSE x

RECURSIVE Gcd(_, _)
Gcd(a, b) == IF b = 0 THEN Abs(a) ELSE Gcd(b, a % Abs(b))

RECURSIVE SeqGcd(_)
SeqGcd(s) == IF s = <<>> THEN 0 ELSE Gcd(Head(s), SeqGcd(Tail(s)))

\* The first position of x in s (0 when absent).
IndexOf(s, x) ==
    IF x \notin Range(s) THEN 0
    ELSE CHOOSE i \in DOMAIN s : s[i] = x /\ \A j \in 1..(i - 1) : s[j] # x

\* The elements of s that lie in keep, order kept.
RECURSIVE Filter(_, _)
Filter(s, keep) ==
    IF s = <<>> THEN <<>>
    ELSE (IF Head(s) \in keep THEN <<Head(s)>> ELSE <<>>) \o Filter(Tail(s), keep)

\* ------------------------------------------------------------------ strings
\* A std::string is a sequence of one-character strings.
Digits == <<"0", "1", "2", "3", "4", "5", "6", "7", "8", "9">>

RECURSIVE convertIntTemp(_)
convertIntTemp(number) ==
    IF number > 0
    THEN <<Digits[(number % 10) + 1]>> \o convertIntTemp(number \div 10)
    ELSE <<>>

convertInt(number) ==
    IF number = 0 THEN <<"0">>
    ELSE LET temp == convertIntTemp(number)
         IN  [i \in 1..Len(temp) |-> temp[Len(temp) - i + 1]]

replace(str, find, repl) == [i \in 1..Len(str) |-> IF str[i] = find THEN repl ELSE str[i]]

makeIslCompatible(str) == replace(replace(Tail(str), ".", "_"), "\"", "_")

\* ------------------------------------------------------------- SCEV shapes
\* A constant is an APInt: a bit width and the unsigned value of its bits.
Const(w, bits) == [kind |-> "const", w |-> w, bits |-> bits]
Unknown(v) == [kind |-> "unknown", val |-> v]
SAdd(ops) == [kind |-> "add", ops |-> ops]
SMul(ops) == [kind |-> "mul", ops |-> ops]
AddRec(start, step, loop) == [kind |-> "addrec", ops |-> <<start, step>>, loop |-> loop]
SExt(op) == [kind |-> "sext", ops |-> <<op>>]
Trunc(op) == [kind |-> "trunc", ops |-> <<op>>]
ZExt(op) == [kind |-> "zext", ops |-> <<op>>]
UDiv(l, r) == [kind |-> "udiv", ops |-> <<l, r>>]
UMax(ops) == [kind |-> "umax", ops |-> ops]

\* The identifiers of the llvm::Values behind the unknowns of the model.
ValueName(v) ==
    CASE v = "N" -> <<"N">>
      [] v = "M" -> <<"M">>
      [] v = "p_x" -> <<"p", "_", "x">>
      [] v = "A" -> <<"A">>
      [] v = "B" -> <<"B">>
      [] v = "for.body" -> <<"f", "o", "r", ".", "b", "o", "d", "y">>
      [] v = "for_body" -> <<"f", "o", "r", "_", "b", "o", "d", "y">>
      [] v = "for.b.dy" -> <<"f", "o", "r", ".", "b", ".", "d", "y">>
      [] v = "forbody" -> <<"f", "o", "r", "b", "o", "d", "y">>
      [] OTHER -> <<>>

\* ---------------------------------------------------------------- isl ids
\* isl_id_alloc(ctx, name, user): two ids are the same id when both agree.
IslId(name, user) == [name |-> name, user |-> user]
ScevPtr(e) == [ptr |-> "scev", e |-> e]
ValuePtr(v) == [ptr |-> "value", v |-> v]

\* ------------------------------------------------------------ isl_pw_aff
\* cst + sum it[k] * i_k + sum pc[j] * params[j], all over den.
NullAff == [kind |-> "null"]
AbortAff == [kind |-> "abort"]
Aff(params, cst, it, pc, den) ==
    [kind |-> "aff", params |-> params, cst |-> cst, it |-> it, pc |-> pc, den |-> den]

ZeroSeq(n) == [i \in 1..n |-> 0]

\* Mutant: the parameters of the model are appended, wanted or not.
AlignedParams_Appending(own, model) == own \o model

\* isl_parameter_alignment_reordering: the parameters of the model first, then
\* those of the object that the model does not have.
AlignedParams(own, model) == model \o Filter(own, Range(own) \ Range(model))

ParamCoef(a, id) == IF id \in Range(a.params) THEN a.pc[IndexOf(a.params, id)] ELSE 0

isl_pw_aff_is_cst(a) ==
    IF a.kind # "aff" THEN -1
    ELSE IF (\A k \in DOMAIN a.it : a.it[k] = 0) /\ (\A j \in DOMAIN a.pc : a.pc[j] = 0)
    THEN 1 ELSE 0

isl_pw_aff_add(a, b) ==
    IF a.kind = "abort" \/ b.kind = "abort" THEN AbortAff
    ELSE IF a.kind = "null" \/ b.kind = "null" THEN NullAff
    ELSE LET ps == AlignedParams(a.params, b.params)
         IN  Aff(ps, a.cst + b.cst,
                 [k \in DOMAIN a.it |-> a.it[k] + b.it[k]],
                 [j \in 1..Len(ps) |-> ParamCoef(a, ps[j]) + ParamCoef(b, ps[j])], 1)

\* isl_aff_mul needs one constant factor; the other is scaled by it.
isl_pw_aff_mul(a, b) ==
    IF a.kind = "abort" \/ b.kind = "abort" THEN AbortAff
    ELSE IF a.kind = "null" \/ b.kind = "null" THEN NullAff
    ELSE IF isl_pw_aff_is_cst(a) # 1 /\ isl_pw_aff_is_cst(b) # 1 THEN NullAff
    ELSE LET ps == AlignedParams(a.params, b.params)
             c == IF isl_pw_aff_is_cst(b) = 1 THEN b.cst ELSE a.cst
             o == IF isl_pw_aff_is_cst(b) = 1 THEN a ELSE b
         IN  Aff(ps, c * o.cst,
                 [k \in DOMAIN o.it |-> c * o.it[k]],
                 [j \in 1..Len(ps) |-> c * ParamCoef(o, ps[j])], 1)

\* Division by v; the quotient is kept as a reduced fraction.
isl_pw_aff_scale_down(a, v) ==
    IF a.kind # "aff" THEN a
    ELSE LET g == Gcd(Gcd(Gcd(a.cst, SeqGcd(a.it)), SeqGcd(a.pc)), a.den * v)
         IN  IF g = 0 THEN [a EXCEPT !.den = 1]
             ELSE Aff(a.params, a.cst \div g,
                      [k \in DOMAIN a.it |-> a.it[k] \div g],
                      [j \in DOMAIN a.pc |-> a.pc[j] \div g], (a.den * v) \div g)

\* ------------------------------------------------------- parameter table
\* Scop::Parameters and Scop::ParameterIds, passed together as a table.
Table(params, ids) == [Parameters |-> params, ParameterIds |-> ids]

\* Mutant: no look-up before the parameter is put on record.
RECURSIVE addParams_NoLookup(_, _)
addParams_NoLookup(T, NewParameters) ==
    IF NewParameters = <<>> THEN T
    ELSE LET Parameter == Head(NewParameters)
             dimension == Len(T.Parameters)
         IN  addParams_NoLookup(Table(Append(T.Parameters, Parameter),
                                      [p \in DOMAIN T.ParameterIds \cup {Parameter} |->
                                          IF p = Parameter THEN dimension
                                          ELSE T.ParameterIds[p]]),
                                Tail(NewParameters))

RECURSIVE addParams(_, _)
addParams(T, NewParameters) ==
    IF NewParameters = <<>> THEN T
    ELSE LET Parameter == Head(NewParameters)
         IN  IF Parameter \in DOMAIN T.ParameterIds
             THEN addParams(T, Tail(NewParameters))
             ELSE LET dimension == Len(T.Parameters)
                  IN  addParams(Table(Append(T.Parameters, Parameter),
                                      [p \in DOMAIN T.ParameterIds \cup {Parameter} |->
                                          IF p = Parameter THEN dimension
                                          ELSE T.ParameterIds[p]]),
                                Tail(NewParameters))

NullId == [kind |-> "null"]

\* Mutant: an identifier that starts with p_ is taken as it is.
getIdForParam_NoReserved(T, Parameter) ==
    IF Parameter \notin DOMAIN T.ParameterIds THEN NullId
    ELSE LET ValName == IF Parameter.kind = "unknown" THEN ValueName(Parameter.val) ELSE <<>>
             ParameterName ==
                 IF ValName = <<>>
                 THEN <<"p", "_">> \o convertInt(T.ParameterIds[Parameter])
                 ELSE ValName
         IN  IslId(ParameterName, ScevPtr(Parameter))

getIdForParam(T, Parameter) ==
    IF Parameter \notin DOMAIN T.ParameterIds THEN NullId
    ELSE LET ValName == IF Parameter.kind = "unknown" THEN ValueName(Parameter.val) ELSE <<>>
             ParameterName ==
                 IF ValName = <<>> \/ (Len(ValName) >= 2 /\ SubSeq(ValName, 1, 2) = <<"p", "_">>)
                 THEN <<"p", "_">> \o convertInt(T.ParameterIds[Parameter])
                 ELSE ValName
         IN  IslId(ParameterName, ScevPtr(Parameter))

\* The opaque sub-expressions of an expression, in order of first occurrence.
RECURSIVE getParamsInAffineExpr(_)
RECURSIVE ParamsOfOps(_)
ParamsOfOps(ops) ==
    IF ops = <<>> THEN <<>>
    ELSE LET first == getParamsInAffineExpr(Head(ops))
             rest == ParamsOfOps(Tail(ops))
         IN  first \o Filter(rest, Range(rest) \ Range(first))

getParamsInAffineExpr(scev) ==
    CASE scev.kind = "const" -> <<>>
      [] scev.kind = "unknown" -> <<scev>>
      [] OTHER -> ParamsOfOps(scev.ops)

\* --------------------------------------------------------- SCEVAffinator
\* The term 1 * (parameter Id) over Nb iterators.
ParamAff(Id, Nb) == Aff(<<Id>>, 0, ZeroSeq(Nb), <<1>>, 1)

Pow2(n) == IF n = 0 THEN 1 ELSE 2 ^ n

\* Mutant: the bits are read as an unsigned number.
SignedValue_Unsigned(w, bits) == bits

\* MPZ_from_APInt(v, Value, isSigned = true).  The bit patterns of the model
\* are below 2^30, so a wider constant has its sign bit clear.
SignedValue(w, bits) ==
    IF w > 30 THEN bits
    ELSE IF bits >= Pow2(w - 1) THEN bits - Pow2(w) ELSE bits

visitConstant(Nb, Constant) ==
    Aff(<<>>, SignedValue(Constant.w, Constant.bits), ZeroSeq(Nb), <<>>, 1)

visitUnknown(Nb, Expr) ==
    ParamAff(IslId(ValueName(Expr.val), ValuePtr(Expr.val)), Nb)

\* The loop of visitAddExpr from operand i on; Operand[i] is visit(operand i).
RECURSIVE visitAddOps(_, _, _, _)
visitAddOps(Operand, e, i, Sum) ==
    IF i > e \/ Sum.kind = "abort" THEN Sum
    ELSE visitAddOps(Operand, e, i + 1, isl_pw_aff_add(Sum, Operand[i]))

visitAddExpr(Operand, e) == visitAddOps(Operand, e, 2, Operand[1])

\* The loop of visitMulExpr from operand i on: NULL as soon as neither the
\* product so far nor the next operand is a constant.
RECURSIVE visitMulOps(_, _, _, _)
visitMulOps(Operand, e, i, Product) ==
    IF i > e \/ Product.kind = "abort" THEN Product
    ELSE LET NextOperand == Operand[i]
         IN  IF NextOperand.kind = "abort" THEN AbortAff
             ELSE IF isl_pw_aff_is_cst(Product) = 0 /\ isl_pw_aff_is_cst(NextOperand) = 0
             THEN NullAff
             ELSE visitMulOps(Operand, e, i + 1, isl_pw_aff_mul(Product, NextOperand))

\* Mutant: the loop starts one operand late.
visitMulExpr_LateStart(Operand, e) == visitMulOps(Operand, e, 3, Operand[1])

visitMulExpr(Operand, e) == visitMulOps(Operand, e, 2, Operand[1])

visitSignExtendExpr(Operand) == Operand[1]

visitTruncateExpr(ub) == ub

visitZeroExtendExpr(ub) == ub

visitUDivExpr(ub) == ub

visitUMaxExpr(ub) == ub

visitAddRecExpr(Operand, Nb, loopDimension) ==
    LET Start == Operand[1]
        Step == IF Start.kind = "abort" THEN AbortAff ELSE Operand[2]
    IN  IF Step.kind = "abort" THEN AbortAff
        ELSE IF loopDimension >= Nb THEN AbortAff
        ELSE LET LPwAff == Aff(<<>>, 0,
                               [k \in 1..Nb |-> IF k = loopDimension + 1 THEN 1 ELSE 0],
                               <<>>, 1)
             IN  isl_pw_aff_add(Start, isl_pw_aff_mul(Step, LPwAff))

\* visit(T, Nb, depthOf, scev, ub): T is the parameter table of the Scop, Nb the
\* statement's number of iterators, depthOf the loop depths of the region, ub the
\* value an unsupported shape yields (the failed assertion, or what a build
\* without assertions produces on falling off the end of the function).
\* Operand[i] is the visit of operand i, looked at only where the code visits it.
RECURSIVE visit(_, _, _, _, _)
visit(T, Nb, depthOf, scev, ub) ==
    IF getIdForParam(T, scev) # NullId
    THEN ParamAff(getIdForParam(T, scev), Nb)
    ELSE IF scev.kind = "const" THEN visitConstant(Nb, scev)
    ELSE IF scev.kind = "unknown" THEN visitUnknown(Nb, scev)
    ELSE LET e == Len(scev.ops)
             Operand == [i \in 1..e |-> visit(T, Nb, depthOf, scev.ops[i], ub)]
         IN  CASE scev.kind = "add" -> visitAddExpr(Operand, e)
               [] scev.kind = "mul" -> visitMulExpr(Operand, e)
               [] scev.kind = "sext" -> visitSignExtendExpr(Operand)
               [] scev.kind = "addrec" -> visitAddRecExpr(Operand, Nb, depthOf[scev.loop])
               [] scev.kind = "trunc" -> visitTruncateExpr(ub)
               [] scev.kind = "zext" -> visitZeroExtendExpr(ub)
               [] scev.kind = "udiv" -> visitUDivExpr(ub)
               [] scev.kind = "umax" -> visitUMaxExpr(ub)

\* Mutant: the opaque sub-expressions are not put on record before the visit.
getPwAff_NoAddParams(T, Nb, depthOf, scev, ub) ==
    [T |-> T, aff |-> visit(T, Nb, depthOf, scev, ub)]

\* SCEVAffinator::getPwAff: the table after addParams, and the translation.
getPwAff(T, Nb, depthOf, scev, ub) ==
    LET T2 == addParams(T, getParamsInAffineExpr(scev))
    IN  [T |-> T2, aff |-> visit(T2, Nb, depthOf, scev, ub)]

\* ------------------------------------------------------- isl sets and maps
NullSet == [kind |-> "null"]
NullMap == [kind |-> "null"]
AbortSet == [kind |-> "abort"]

\* A set over n iterators: the conjunction of its constraints l op r.
IslSet(params, tuple, n, cons) ==
    [kind |-> "set", params |-> params, tuple |-> tuple, n |-> n, cons |-> cons]

isl_set_universe(n) == IslSet(<<>>, <<>>, n, <<>>)

\* isl_pw_aff_eq_set and its five siblings.
isl_pw_aff_cmp_set(op, L, R) ==
    IF L.kind = "abort" \/ R.kind = "abort" THEN AbortSet
    ELSE IF L.kind = "null" \/ R.kind = "null" THEN NullSet
    ELSE IslSet(AlignedParams(L.params, R.params), <<>>, Len(L.it),
                <<[op |-> op, l |-> L, r |-> R]>>)

isl_set_intersect(A, B) ==
    IF A.kind = "abort" \/ B.kind = "abort" THEN AbortSet
    ELSE IF A.kind = "null" \/ B.kind = "null" THEN NullSet
    ELSE IslSet(AlignedParams(A.params, B.params), A.tuple, A.n, A.cons \o B.cons)

isl_set_set_tuple_name(S, name) == IF S.kind # "set" THEN S ELSE [S EXCEPT !.tuple = name]

isl_set_align_params(S, model) ==
    IF S.kind # "set" THEN S ELSE [S EXCEPT !.params = AlignedParams(S.params, model)]

\* A map from nin iterators to Len(dims) output dimensions.  Output dimension k
\* is unconstrained ("free"), equal to input i ("in"), fixed to v ("fix") or
\* equal to an affine function of the input ("aff").
IslMap(params, inName, outName, nin, dims) ==
    [kind |-> "map", params |-> params, inName |-> inName, outName |-> outName,
     nin |-> nin, dims |-> dims]

FreeDim == [t |-> "free"]
InDim(i) == [t |-> "in", i |-> i]
FixDim(v) == [t |-> "fix", v |-> v]
AffDim(a) == [t |-> "aff", a |-> a]

isl_map_universe(inName, outName, nin, nout) ==
    IslMap(<<>>, inName, outName, nin, [k \in 1..nout |-> FreeDim])

\* Positions are counted from 0, as in isl.
isl_map_equate(M, outPos, inPos) == [M EXCEPT !.dims[outPos + 1] = InDim(inPos)]

isl_map_fix_si(M, outPos, value) == [M EXCEPT !.dims[outPos + 1] = FixDim(value)]

isl_map_from_pw_aff(a) ==
    IF a.kind # "aff" THEN NullMap
    ELSE IslMap(a.params, <<>>, <<>>, Len(a.it), <<AffDim(a)>>)

isl_map_set_tuple_names(M, inName, outName) ==
    IF M.kind # "map" THEN M ELSE [M EXCEPT !.inName = inName, !.outName = outName]

isl_map_align_params(M, model) ==
    IF M.kind # "map" THEN M ELSE [M EXCEPT !.params = AlignedParams(M.params, model)]

\* ------------------------------------------------------ meaning of objects
EvalNum(a, iv, val) ==
    LET RECURSIVE SumIt(_)
        SumIt(k) == IF k = 0 THEN 0 ELSE a.it[k] * iv[k] + SumIt(k - 1)
        RECURSIVE SumPar(_)
        SumPar(j) == IF j = 0 THEN 0 ELSE a.pc[j] * val[a.params[j]] + SumPar(j - 1)
    IN  a.cst + SumIt(Len(a.it)) + SumPar(Len(a.params))

Holds(c, iv, val) ==
    LET l == EvalNum(c.l, iv, val)
        r == EvalNum(c.r, iv, val)
    IN  CASE c.op = "eq" -> l = r
          [] c.op = "ne" -> l # r
          [] c.op = "lt" -> l < r
          [] c.op = "le" -> l <= r
          [] c.op = "gt" -> l > r
          [] c.op = "ge" -> l >= r

InSet(S, iv, val) == \A k \in DOMAIN S.cons : Holds(S.cons[k], iv, val)

\* Whether output coordinate o is related to point iv in dimension d of a map.
DimRelates(d, iv, val, o) ==
    CASE d.t = "free" -> TRUE
      [] d.t = "in" -> o = iv[d.i + 1]
      [] d.t = "fix" -> o = d.v
      [] d.t = "aff" -> d.a.den * o = EvalNum(d.a, iv, val)

\* ------------------------------------------------------------- TempScop facts
\* A Comparison of TempScopInfo: two expressions and an ICmp predicate.
Comparison(lhs, rhs, pred) == [lhs |-> lhs, rhs |-> rhs, pred |-> pred]

\* An IRAccess: kind, base address, offset in bytes, element size, affine flag.
IRAccess(type, base, offset, size, affine) ==
    [type |-> type, base |-> base, offset |-> offset, size |-> size, affine |-> affine]

isRead(Access) == Access.type \in {"READ", "SCALARREAD"}

\* WriteAsOperand(OS, V, false) of a named value or block.
WriteAsOperand(name) == <<"%">> \o name

\* ----------------------------------------------------------------- ScopStmt
\* What an unsupported shape yields: ub.aff in the translator, ub.set in
\* buildConditionSet.
Failing == [aff |-> AbortAff, set |-> AbortSet]

ZeroAff(Nb) == Aff(<<>>, 0, ZeroSeq(Nb), <<>>, 1)

IteratorAff(Nb, i) == Aff(<<>>, 0, [k \in 1..Nb |-> IF k = i + 1 THEN 1 ELSE 0], <<>>, 1)

\* Mutant: SLT is taken for SLE and SGT for SGE.
buildConditionSwitch_Strict(pred, L, R, ub) ==
    [T |-> R.T,
     set |-> IF L.aff.kind = "abort" \/ R.aff.kind = "abort" THEN AbortSet
             ELSE CASE pred = "EQ" -> isl_pw_aff_cmp_set("eq", L.aff, R.aff)
                    [] pred = "NE" -> isl_pw_aff_cmp_set("ne", L.aff, R.aff)
                    [] pred \in {"SLT", "SLE"} -> isl_pw_aff_cmp_set("lt", L.aff, R.aff)
                    [] pred \in {"SGT", "SGE"} -> isl_pw_aff_cmp_set("gt", L.aff, R.aff)
                    [] OTHER -> ub.set]

\* The switch of buildConditionSet, over the translations L and R of the two
\* sides: the table R left, and the set.
buildConditionSwitch(pred, L, R, ub) ==
    [T |-> R.T,
     set |-> IF L.aff.kind = "abort" \/ R.aff.kind = "abort" THEN AbortSet
             ELSE CASE pred = "EQ" -> isl_pw_aff_cmp_set("eq", L.aff, R.aff)
                    [] pred = "NE" -> isl_pw_aff_cmp_set("ne", L.aff, R.aff)
                    [] pred = "SLT" -> isl_pw_aff_cmp_set("lt", L.aff, R.aff)
                    [] pred = "SLE" -> isl_pw_aff_cmp_set("le", L.aff, R.aff)
                    [] pred = "SGT" -> isl_pw_aff_cmp_set("gt", L.aff, R.aff)
                    [] pred = "SGE" -> isl_pw_aff_cmp_set("ge", L.aff, R.aff)
                    [] pred \in {"ULT", "UGT", "ULE", "UGE"} -> ub.set
                    [] OTHER -> ub.set]

\* The right-hand side is translated after the left-hand side L.
buildConditionRHS(L, Nb, depthOf, Comp, ub) ==
    buildConditionSwitch(Comp.pred, L,
                         IF L.aff.kind = "abort" THEN L
                         ELSE getPwAff(L.T, Nb, depthOf, Comp.rhs, ub.aff),
                         ub)

buildConditionSet(T, Nb, depthOf, Comp, ub) ==
    buildConditionRHS(getPwAff(T, Nb, depthOf, Comp.lhs, ub.aff), Nb, depthOf, Comp, ub)

\* The domain under construction travels with the parameter table: D.T, D.set.
\* UpperBoundSet of addLoopBoundsToDomain for the translated bound UpperBound.
\* Mutant: the iterator stays below the backedge-taken count.
addUpperBoundSet_Strict(IV, UpperBound) ==
    [T |-> UpperBound.T, set |-> isl_pw_aff_cmp_set("lt", IV, UpperBound.aff)]

addUpperBoundSet(IV, UpperBound) ==
    [T |-> UpperBound.T, set |-> isl_pw_aff_cmp_set("le", IV, UpperBound.aff)]

\* The loop of addLoopBoundsToDomain from dimension i (counted from 0) on.
RECURSIVE addLoopBoundsFrom(_, _, _, _, _, _)
addLoopBoundsFrom(i, D, IVS, bounds, depthOf, ub) ==
    IF i = Len(IVS) \/ D.set.kind = "abort" THEN D
    ELSE LET Nb == Len(IVS)
             IV == IteratorAff(Nb, i)
             LowerBound == isl_pw_aff_cmp_set("ge", IV, ZeroAff(Nb))
             L == IVS[i + 1]
         IN  addLoopBoundsFrom(i + 1,
                 [addUpperBoundSet(IV, getPwAff(D.T, Nb, depthOf, bounds[L], ub.aff))
                     EXCEPT !.set = isl_set_intersect(isl_set_intersect(D.set, LowerBound), @)],
                 IVS, bounds, depthOf, ub)

addLoopBoundsToDomain(D, IVS, bounds, depthOf, ub) ==
    addLoopBoundsFrom(0, D, IVS, bounds, depthOf, ub)

\* The comparisons of one block, intersected with the domain one by one.
RECURSIVE addBBCond(_, _, _, _, _)
addBBCond(D, Nb, depthOf, Condition, ub) ==
    IF Condition = <<>> \/ D.set.kind = "abort" THEN D
    ELSE addBBCond([buildConditionSet(D.T, Nb, depthOf, Head(Condition), ub)
                       EXCEPT !.set = isl_set_intersect(D.set, @)],
                   Nb, depthOf, Tail(Condition), ub)

\* The do-while of addConditionsToDomain: regs are the regions from the maximal
\* region (first) to the current region (last), k the index of CurrentRegion.
RECURSIVE addConditionsFrom(_, _, _, _, _, _, _, _, _)
addConditionsFrom(k, D, BranchingBB, regs, entryOf, conds, Nb, depthOf, ub) ==
    IF k = 0 \/ D.set.kind = "abort" THEN D
    ELSE LET CurrentRegion == regs[k]
         IN  addConditionsFrom(k - 1,
                 IF BranchingBB # entryOf[CurrentRegion]
                 THEN addBBCond(D, Nb, depthOf, conds[BranchingBB], ub)
                 ELSE D,
                 entryOf[CurrentRegion], regs, entryOf, conds, Nb, depthOf, ub)

\* Mutant: the walk starts at the entry of the current region.
addConditionsToDomain_FromEntry(D, BB, regs, entryOf, conds, Nb, depthOf, ub) ==
    addConditionsFrom(Len(regs), D, entryOf[regs[Len(regs)]], regs, entryOf, conds, Nb,
                      depthOf, ub)

addConditionsToDomain(D, BB, regs, entryOf, conds, Nb, depthOf, ub) ==
    addConditionsFrom(Len(regs), D, BB, regs, entryOf, conds, Nb, depthOf, ub)

buildDomain(T, BB, BaseName, IVS, regs, entryOf, bounds, conds, depthOf, ub) ==
    [addConditionsToDomain(
         addLoopBoundsToDomain([T |-> T, set |-> isl_set_universe(Len(IVS))],
                               IVS, bounds, depthOf, ub),
         BB, regs, entryOf, conds, Len(IVS), depthOf, ub)
        EXCEPT !.set = isl_set_set_tuple_name(@, BaseName)]

ScatteringName == <<"s", "c", "a", "t", "t", "e", "r", "i", "n", "g">>

\* Mutant: the dimensions past the statement's own are left unconstrained.
buildScattering_NoFill(BaseName, NbIterators, Scat, MaxDepth, ParamSpace) ==
    LET NbScatteringDims == MaxDepth * 2 + 1
        Universe == isl_map_universe(BaseName, ScatteringName, NbIterators, NbScatteringDims)
        RECURSIVE Loops(_, _)
        Loops(M, i) == IF i = NbIterators THEN M
                       ELSE Loops(isl_map_equate(M, 2 * i + 1, i), i + 1)
        RECURSIVE Consts(_, _)
        Consts(M, i) == IF i = NbIterators + 1 THEN M
                        ELSE Consts(isl_map_fix_si(M, 2 * i, Scat[i + 1]), i + 1)
    IN  isl_map_align_params(Consts(Loops(Universe, 0), 0), ParamSpace)

\* The three loops of buildScattering, one output dimension at a time.
buildScattering(BaseName, NbIterators, Scat, MaxDepth, ParamSpace) ==
    LET NbScatteringDims == MaxDepth * 2 + 1
        Universe == isl_map_universe(BaseName, ScatteringName, NbIterators, NbScatteringDims)
        RECURSIVE Loops(_, _)
        Loops(M, i) == IF i = NbIterators THEN M
                       ELSE Loops(isl_map_equate(M, 2 * i + 1, i), i + 1)
        RECURSIVE Consts(_, _)
        Consts(M, i) == IF i = NbIterators + 1 THEN M
                        ELSE Consts(isl_map_fix_si(M, 2 * i, Scat[i + 1]), i + 1)
        RECURSIVE Fill(_, _)
        Fill(M, i) == IF i >= NbScatteringDims THEN M
                      ELSE Fill(isl_map_fix_si(M, i, 0), i + 1)
    IN  isl_map_align_params(Fill(Consts(Loops(Universe, 0), 0), 2 * NbIterators + 1),
                             ParamSpace)

\* --------------------------------------------------------------- MemoryAccess
MemRefPrefix == <<"M", "e", "m", "R", "e", "f", "_">>
StmtPrefix == <<"S", "t", "m", "t", "_">>

setBaseName(BaseAddr) == MemRefPrefix \o makeIslCompatible(WriteAsOperand(ValueName(BaseAddr)))

\* Mutant: the slot of the rewritten relation starts with the relation itself.
MemAcc_Rewritten(type, base, rel) ==
    [Type |-> type, BaseAddr |-> base, BaseName |-> setBaseName(base),
     AccessRelation |-> rel, newAccessRelation |-> rel]

MemAcc(type, base, rel) ==
    [Type |-> type, BaseAddr |-> base, BaseName |-> setBaseName(base),
     AccessRelation |-> rel, newAccessRelation |-> NullMap]

createBasicAccessMap(BaseAddr, StmtName, NbIterators) ==
    isl_map_universe(StmtName, setBaseName(BaseAddr), NbIterators, 1)

\* The affine branch of the constructor, for the translated offset Affine.
AffineAccess(Type, Access, StmtName, Affine) ==
    LET Scaled == isl_pw_aff_scale_down(Affine.aff, Access.size)
        Rel == IF Scaled.kind = "abort" THEN [kind |-> "abort"]
               ELSE isl_map_set_tuple_names(isl_map_from_pw_aff(Scaled), StmtName,
                                            setBaseName(Access.base))
    IN  [T |-> Affine.T, acc |-> MemAcc(Type, Access.base, Rel)]

\* Mutant: a write that is not affine stays a must-write.
MemoryAccess_NoMayWrite(T, Access, StmtName, Nb, depthOf, ub) ==
    LET Type == IF isRead(Access) THEN "Read" ELSE "Write"
    IN  IF ~Access.affine
        THEN [T |-> T,
              acc |-> MemAcc(Type, Access.base,
                             createBasicAccessMap(Access.base, StmtName, Nb))]
        ELSE AffineAccess(Type, Access, StmtName,
                          getPwAff(T, Nb, depthOf, Access.offset, ub.aff))

\* MemoryAccess::MemoryAccess(const IRAccess &, ScopStmt *): the table after the
\* translation, and the access (an "abort" relation when construction stopped).
MemoryAccess(T, Access, StmtName, Nb, depthOf, ub) ==
    LET Type == IF isRead(Access) THEN "Read" ELSE "Write"
    IN  IF ~Access.affine
        THEN [T |-> T,
              acc |-> MemAcc(IF Type = "Read" THEN "Read" ELSE "MayWrite", Access.base,
                             createBasicAccessMap(Access.base, StmtName, Nb))]
        ELSE AffineAccess(Type, Access, StmtName,
                          getPwAff(T, Nb, depthOf, Access.offset, ub.aff))

\* memAccs.push_back(new MemoryAccess(...)): P.T is the table, P.MemAccs the vector.
push_back(P, A) == [T |-> A.T, MemAccs |-> Append(P.MemAccs, A.acc)]

AccessesAborted(MemAccs) ==
    \E k \in DOMAIN MemAccs : MemAccs[k].AccessRelation.kind = "abort"

RECURSIVE buildAccesses(_, _, _, _, _, _)
buildAccesses(P, AccFuncs, StmtName, Nb, depthOf, ub) ==
    IF AccFuncs = <<>> \/ AccessesAborted(P.MemAccs) THEN P
    ELSE buildAccesses(push_back(P, MemoryAccess(P.T, Head(AccFuncs), StmtName, Nb,
                                                 depthOf, ub)),
                       Tail(AccFuncs), StmtName, Nb, depthOf, ub)

\* The statement once its domain Dom and its accesses Accs are built.
ScopStmtOf(BB, NestLoops, BaseName, Dom, Scattering, Accs) ==
    [T |-> Accs.T,
     aborted |-> Dom.set.kind = "abort" \/ AccessesAborted(Accs.MemAccs),
     stmt |-> [BB |-> BB, IVS |-> NestLoops, BaseName |-> BaseName, Domain |-> Dom.set,
               Scattering |-> Scattering, MemAccs |-> Accs.MemAccs]]

\* The constructor after buildDomain.
ScopStmtAfterDomain(BB, NestLoops, BaseName, Dom, Scat, F, ub) ==
    ScopStmtOf(BB, NestLoops, BaseName, Dom,
               buildScattering(BaseName, Len(NestLoops), Scat, F.MaxDepth, F.ParamSpace),
               IF Dom.set.kind = "abort" THEN [T |-> Dom.T, MemAccs |-> <<>>]
               ELSE buildAccesses([T |-> Dom.T, MemAccs |-> <<>>], F.accs, BaseName,
                                  Len(NestLoops), F.depthOf, ub))

\* ScopStmt::ScopStmt.  BBName is the block's identifier, NestLoops the loops
\* around it, regs the regions around it, Scat the Scatter vector, in the facts
\* record F: bounds (LoopBounds), conds (BBConds), accs (the block's access
\* functions), entryOf, depthOf, MaxDepth and ParamSpace.
ScopStmt(T, BB, BBName, NestLoops, regs, Scat, F, ub) ==
    LET BaseName == StmtPrefix \o makeIslCompatible(WriteAsOperand(BBName))
    IN  ScopStmtAfterDomain(BB, NestLoops, BaseName,
                            buildDomain(T, BB, BaseName, NestLoops, regs, F.entryOf, F.bounds,
                                        F.conds, F.depthOf, ub),
                            Scat, F, ub)

\* ---------------------------------------------------------------------- Scop
\* Scop::realignParams: the common parameter space, then every object aligned.
\* Mutant: the scattering is left in the space it was built in.
ScopStmt_realignParams_NoScattering(stmt, ParamSpace) ==
    [stmt EXCEPT
        !.MemAccs = [k \in DOMAIN stmt.MemAccs |->
                        [stmt.MemAccs[k] EXCEPT !.AccessRelation =
                            isl_map_align_params(stmt.MemAccs[k].AccessRelation, ParamSpace)]],
        !.Domain = isl_set_align_params(stmt.Domain, ParamSpace)]

ScopStmt_realignParams(stmt, ParamSpace) ==
    [stmt EXCEPT
        !.MemAccs = [k \in DOMAIN stmt.MemAccs |->
                        [stmt.MemAccs[k] EXCEPT !.AccessRelation =
                            isl_map_align_params(stmt.MemAccs[k].AccessRelation, ParamSpace)]],
        !.Domain = isl_set_align_params(stmt.Domain, ParamSpace),
        !.Scattering = isl_map_align_params(stmt.Scattering, ParamSpace)]

UnnamedDim(i) == [kind |-> "unnamed", pos |-> i]

ParamSpaceOf(T) ==
    [i \in 1..Cardinality(DOMAIN T.ParameterIds) |->
        IF \E P \in DOMAIN T.ParameterIds : T.ParameterIds[P] = i - 1
        THEN getIdForParam(T, CHOOSE P \in DOMAIN T.ParameterIds : T.ParameterIds[P] = i - 1)
        ELSE UnnamedDim(i)]

realignParams(T, Ctx, Statements) ==
    LET Space == ParamSpaceOf(T)
        NewContext == isl_set_align_params(Ctx, Space)
    IN  [Context |-> NewContext,
         Stmts |-> [k \in DOMAIN Statements |->
                       ScopStmt_realignParams(Statements[k], NewContext.params)]]

\* ------------------------------------------------------------- region tree
\* The maximal region is region 0.  tree lists what lies below it in the order
\* of the element iterator: "L" opens a sub-region that is a loop, "R" one that
\* is none, "E" closes the innermost open sub-region, "B" is a block with
\* access functions on record and "T" a block with none.  A sub-region and a
\* block are named by their position in tree.
Tokens == {"L", "R", "E", "B", "T"}

IsOpen(t) == t \in {"L", "R"}
IsBlock(t) == t \in {"B", "T"}

RECURSIVE Dep(_, _)
Dep(s, p) == IF p = 0 THEN 0
             ELSE Dep(s, p - 1) + (IF IsOpen(s[p]) THEN 1 ELSE IF s[p] = "E" THEN -1 ELSE 0)

\* Sub-region q is open at position p.
Encloses(s, q, p) == q < p /\ IsOpen(s[q]) /\ \A r \in q..(p - 1) : Dep(s, r) >= Dep(s, q)

\* Regions nest, none is empty, and two loops never share their header: of the
\* regions that begin at the same block at most one is a loop.
WellFormed(s, top) ==
    /\ Len(s) >= 1
    /\ \A p \in 1..Len(s) : Dep(s, p) >= 0
    /\ Dep(s, Len(s)) = 0
    /\ \A p \in 1..(Len(s) - 1) : IsOpen(s[p]) => s[p + 1] # "E"
    /\ \A p \in 1..Len(s) : s[p] = "L" =>
          /\ \A q \in 1..(p - 1) : (\A r \in q..p : IsOpen(s[r])) => s[q] # "L"
          /\ top => \E r \in 1..p : ~IsOpen(s[r])

TreesOfLen(n) == [1..n -> Tokens]

IsLoopRegion(s, top, r) == IF r = 0 THEN top ELSE s[r] = "L"

\* The loops around position p, the outermost first.
LoopsAround(s, top, p) ==
    (IF top THEN <<0>> ELSE <<>>) \o
    Filter([q \in 1..Len(s) |-> q], {q \in 1..Len(s) : s[q] = "L" /\ Encloses(s, q, p)})

\* Region::getEntry: the first block of the region.
EntryOf(s) ==
    [r \in {0} \cup {q \in 1..Len(s) : IsOpen(s[q])} |->
        CHOOSE p \in (r + 1)..Len(s) :
            IsBlock(s[p]) /\ \A q \in (r + 1)..(p - 1) : ~IsBlock(s[q])]

\* Loop::getLoopDepth: 1 for a loop with no loop around it.  Loop 0 is the
\* maximal region itself, when that is a loop.
LoopDepth(s, top, l) == IF l = 0 THEN 1 ELSE Len(LoopsAround(s, top, l)) + 1

\* Region::outermostLoopInRegion: the outermost loop of the region around L,
\* L itself when there is none.
outermostLoopInRegion(s, top, l) ==
    IF l = 0 THEN 0 ELSE Head(LoopsAround(s, top, l) \o <<l>>)

\* Mutant: the depth of L itself, counted from 1.
getLoopDepth_FromOne(s, top) ==
    [l \in (IF top THEN {0} ELSE {}) \cup {q \in 1..Len(s) : s[q] = "L"} |->
        LoopDepth(s, top, l)]

\* SCEVAffinator::getLoopDepth: the depth of L below the outermost loop.
getLoopDepth(s, top) ==
    [l \in (IF top THEN {0} ELSE {}) \cup {q \in 1..Len(s) : s[q] = "L"} |->
        LoopDepth(s, top, l) - LoopDepth(s, top, outermostLoopInRegion(s, top, l))]

\* Mutant: the depth is counted from the outermost loop as zero.
buildLoopBounds_FromZero(s, top) ==
    LET depths == {Len(LoopsAround(s, top, p)) : p \in {q \in 1..Len(s) : IsBlock(s[q])}}
        deepest == CHOOSE d \in depths : \A e \in depths : e <= d
    IN  IF deepest = 0 THEN 0 ELSE deepest - 1

\* TempScopInfo::buildLoopBounds: the depth of the deepest loop with a block.
buildLoopBounds(s, top) ==
    LET depths == {Len(LoopsAround(s, top, p)) : p \in {q \in 1..Len(s) : IsBlock(s[q])}}
    IN  CHOOSE d \in depths : \A e \in depths : e <= d

BlockName(p) == <<"b", "b">> \o convertInt(p)

\* ------------------------------------------------------------------- facts
\* The facts the extraction pass may have on record for a region that the
\* detection has validated: every bound and every condition operand is affine
\* in the iterators and parameters and uses supported shapes and predicates.
C64(v) == Const(64, v)
ParamN == Unknown("N")
ParamM == Unknown("M")

Innermost(loops) == loops[Len(loops)]

ValidBounds(loops) ==
    {C64(1), ParamN} \cup
    (IF Len(loops) >= 2 THEN {AddRec(C64(0), C64(1), loops[Len(loops) - 1])} ELSE {})

Strided(loops) ==
    IF Len(loops) >= 1 THEN AddRec(C64(0), C64(4), Innermost(loops))
    ELSE SMul(<<C64(4), ParamN>>)

\* The comparisons and the access functions on record for one block.
BlockFacts(conds, accs) == [conds |-> conds, accs |-> accs]

PlainFacts == BlockFacts(<<>>, <<IRAccess("WRITE", "A", C64(0), 4, TRUE)>>)

ValidFacts(loops) ==
    {BlockFacts(<<>>, <<IRAccess("WRITE", "A", C64(0), 4, TRUE)>>),
     BlockFacts(<<Comparison(ParamM, C64(0), "SGT")>>,
                <<IRAccess("READ", "A", Strided(loops), 4, TRUE),
                  IRAccess("WRITE", "B", SAdd(<<ParamM, ParamN>>), 1, TRUE)>>),
     BlockFacts(IF Len(loops) >= 1
                THEN <<Comparison(AddRec(C64(0), C64(1), Innermost(loops)), ParamN, "SLT")>>
                ELSE <<Comparison(ParamN, C64(1), "NE")>>,
                <<IRAccess("READ", "B", SAdd(<<C64(2), Strided(loops)>>), 4, TRUE)>>),
     BlockFacts(<<>>,
                <<IRAccess("WRITE", "A", SMul(<<ParamN, ParamM>>), 4, FALSE),
                  IRAccess("READ", "B", SMul(<<ParamM, ParamM>>), 4, FALSE)>>)}

\* The predicates buildConditionSet supports.
SignedPredicates == {"EQ", "NE", "SLT", "SLE", "SGT", "SGE"}

\* One comparison per block, with every supported predicate: of the iterator
\* of the innermost loop or a parameter with a parameter, of a parameter with
\* a constant, and of a sum with a negative constant.
ComparedFacts(loops) ==
    {BlockFacts(<<Comparison(ops[1], ops[2], p)>>, <<IRAccess("WRITE", "A", C64(0), 4, TRUE)>>) :
        p \in SignedPredicates,
        ops \in {<<IF loops = <<>> THEN ParamM ELSE AddRec(C64(0), C64(1), Innermost(loops)),
                   ParamN>>,
                 <<ParamN, C64(1)>>,
                 <<SAdd(<<ParamN, ParamM>>), Const(8, 255)>>}}

\* What may reach the builder when the detection has not done its part.
UnvalidatedFacts(loops) ==
    {BlockFacts(<<Comparison(SMul(<<ParamN, ParamM>>), C64(0), "SLT")>>,
                <<IRAccess("WRITE", "A", C64(0), 4, TRUE)>>),
     BlockFacts(<<Comparison(ParamN, ParamM, "ULT")>>,
                <<IRAccess("WRITE", "A", C64(0), 4, TRUE)>>),
     BlockFacts(<<Comparison(Trunc(ParamN), C64(0), "EQ")>>,
                <<IRAccess("READ", "A", C64(0), 4, TRUE)>>)}

UnvalidatedBounds(loops) == {UMax(<<ParamN, ParamM>>)}

\* ------------------------------------------------------------ the ScopInfo pass
\* isl objects are followed by reference.  A field of the Scop holds the
\* reference its constructor put there until a setter stores another one; a
\* getter hands its caller a reference of its own (isl_map_copy, isl_set_copy).
NullRef == [kind |-> "null"]
BuiltRef(run, f) == [kind |-> "built", run |-> run, field |-> f]
CopyRef(n) == [kind |-> "copy", n |-> n]

\* A field that holds a set or a map: of the Scop, of statement k, or of
\* access j of statement k.
Field(name, k, j) == [field |-> name, stmt |-> k, acc |-> j]

Fields(stmts) ==
    {Field("Context", 0, 0)} \cup
    UNION {{Field("Domain", k, 0), Field("Scattering", k, 0)} : k \in DOMAIN stmts} \cup
    UNION {UNION {{Field("AccessRelation", k, j), Field("newAccessRelation", k, j)} :
                     j \in DOMAIN stmts[k].MemAccs} : k \in DOMAIN stmts}

\* The reference a field holds: I.slot has the fields a setter has written.
SlotOf(I, f) ==
    IF f \in DOMAIN I.slot THEN I.slot[f]
    ELSE IF f.field = "newAccessRelation" THEN NullRef
    ELSE BuiltRef(I.run, f)

\* ScopInfo::ScopInfo: the context is allocated, there is no Scop.
ScopInfo ==
    [ctx |-> "live", allocs |-> 1, run |-> 0, slot |-> <<>>, held |-> <<>>, owned |-> {},
     freed |-> {}, made |-> 0, faults |-> {}, op |-> "ScopInfo", calls |-> 0]

\* new Scop(...) in runOnRegion: the fields of the new Scop hold what its
\* constructor builds.
NewScop(I) == [I EXCEPT !.run = @ + 1, !.slot = <<>>, !.op = "runOnRegion"]

\* Reading the object behind a reference.
isl_read(I, r) ==
    IF r \in I.freed THEN [I EXCEPT !.faults = @ \cup {"read after release"}] ELSE I

\* isl_map_free, isl_set_free: NULL is let through.
isl_free(I, r) ==
    IF r = NullRef THEN I
    ELSE IF r \in I.freed THEN [I EXCEPT !.faults = @ \cup {"released twice"}]
    ELSE [I EXCEPT !.freed = @ \cup {r}]

\* isl_map_copy, isl_set_copy: a reference for the caller; NULL stays NULL.
isl_copy(I, r, value) ==
    IF r = NullRef THEN I
    ELSE [isl_read(I, r) EXCEPT !.made = @ + 1,
                                !.held = (CopyRef(I.made + 1) :> value) @@ @]

isl_ctx_free(I) == [I EXCEPT !.ctx = "freed", !.op = "~ScopInfo"]

\* The call op of a client of the pass has returned.
Called(I, op) == [I EXCEPT !.op = op, !.calls = @ + 1]

\* Field = New: the caller's reference goes to the field.
Store(I, f, New) ==
    [I EXCEPT !.slot = (f :> New) @@ @,
              !.held = [r \in DOMAIN @ \ {New} |-> @[r]],
              !.owned = @ \cup {New}]

\* Mutant: the scattering in place is not released.
setScattering_NoFree(I, k, NewScattering) == Store(I, Field("Scattering", k, 0), NewScattering)

setScattering(I, k, NewScattering) ==
    Store(isl_free(I, SlotOf(I, Field("Scattering", k, 0))), Field("Scattering", k, 0),
          NewScattering)

setNewAccessRelation(I, k, j, newAccess) ==
    Store(isl_free(I, SlotOf(I, Field("newAccessRelation", k, j))),
          Field("newAccessRelation", k, j), newAccess)

setContext(I, NewContext) ==
    Store(isl_free(isl_read(I, SlotOf(I, Field("Context", 0, 0))),
                   SlotOf(I, Field("Context", 0, 0))),
          Field("Context", 0, 0), NewContext)

MemoryAccess_dtor(I, k, j) ==
    isl_free(isl_free(I, SlotOf(I, Field("AccessRelation", k, j))),
             SlotOf(I, Field("newAccessRelation", k, j)))

\* ~ScopStmt: the accesses from the back, then the domain and the scattering.
RECURSIVE DeleteMemAccs(_, _, _)
DeleteMemAccs(I, k, j) ==
    IF j = 0 THEN I ELSE DeleteMemAccs(MemoryAccess_dtor(I, k, j), k, j - 1)

ScopStmt_dtor(I, stmts, k) ==
    isl_free(isl_free(DeleteMemAccs(I, k, Len(stmts[k].MemAccs)),
                      SlotOf(I, Field("Domain", k, 0))),
             SlotOf(I, Field("Scattering", k, 0)))

RECURSIVE DeleteStmts(_, _, _)
DeleteStmts(I, stmts, k) ==
    IF k > Len(stmts) THEN I ELSE DeleteStmts(ScopStmt_dtor(I, stmts, k), stmts, k + 1)

\* Mutant: the statements are left behind.
Scop_dtor_ContextOnly(I, stmts) == isl_free(I, SlotOf(I, Field("Context", 0, 0)))

\* ~Scop: the context, then every statement.
Scop_dtor(I, stmts) == DeleteStmts(isl_free(I, SlotOf(I, Field("Context", 0, 0))), stmts, 1)

\* What the constructor of the Scop put into its fields.
BuiltRefs(I, stmts) ==
    {BuiltRef(I.run, f) : f \in {g \in Fields(stmts) : g.field # "newAccessRelation"}}

\* ScopInfo::clear: the Scop, if there is one, is deleted.
clear(I, stmts, scop) ==
    IF scop
    THEN [Scop_dtor(I, stmts) EXCEPT !.owned = @ \cup BuiltRefs(I, stmts), !.slot = <<>>,
                                     !.op = "releaseMemory"]
    ELSE I

\* ------------------------------------------------------------------- state
VARIABLES
    tree,          \* the region tree below the maximal region
    topIsLoop,     \* castToLoop(maximal region) is a loop
    profile,       \* which facts the extraction pass may put on record
    NDEBUG,        \* the build compiles assertions out
    LoopBounds,    \* TempScop: loop -> backedge-taken count, as far as read
    BBConds,       \* TempScop: block -> comparisons, as far as read
    AccFuncMap,    \* TempScop: block -> access functions, as far as read
    MaxLoopDepth,  \* Scop::MaxLoopDepth
    pc,            \* where the Scop constructor stands
    pos,           \* the element of the tree that comes next
    regStack,      \* the regions of the active buildScop calls
    NestLoops,     \* buildScop's NestLoops
    Scatter,       \* buildScop's Scatter
    Stmts,         \* Scop::Stmts
    Parameters,    \* Scop::Parameters
    ParameterIds,  \* Scop::ParameterIds
    Context,       \* Scop::Context
    realigns,      \* calls of Scop::realignParams so far
    NewParameters, \* the argument of the call of Scop::addParams that is followed
    Expr,          \* the argument of the call of SCEVAffinator::getPwAff that is followed
    PwAff,         \* and what that call returned
    isl,           \* the isl context of the pass and the references to its objects
    Func           \* the function and the region the extraction pass works on

vars == <<tree, topIsLoop, profile, NDEBUG, LoopBounds, BBConds, AccFuncMap, MaxLoopDepth,
          pc, pos, regStack, NestLoops, Scatter, Stmts, Parameters, ParameterIds, Context,
          realigns, NewParameters, Expr, PwAff, isl, Func>>

inputs == <<tree, topIsLoop, profile, NDEBUG, MaxLoopDepth, Func>>

calls == <<NewParameters, Expr, PwAff>>

\* No call has been followed yet.
NoCall == [kind |-> "none"]

\* The extraction pass is not looked at.
NoFunction == [kind |-> "none"]

\* The outcomes of reaching an unsupported shape: the assertion stops the
\* program; compiled out, control falls off the end of a function that must
\* return a value, and the caller goes on with whatever it finds.
Outcomes(Nb) ==
    IF NDEBUG
    THEN {Failing, [aff |-> NullAff, set |-> NullSet],
          [aff |-> ZeroAff(Nb), set |-> isl_set_universe(Nb)]}
    ELSE {Failing}

\* Scop::Scop up to the call of buildScop.
InitScop(prof, size) ==
    /\ \E n \in 1..size : \E s \in TreesOfLen(n) : \E top \in BOOLEAN :
          /\ WellFormed(s, top)
          /\ tree = s
          /\ topIsLoop = top
          /\ MaxLoopDepth = buildLoopBounds(s, top)
    /\ profile = prof
    /\ NDEBUG \in BOOLEAN
    /\ LoopBounds = <<>>
    /\ BBConds = <<>>
    /\ AccFuncMap = <<>>
    /\ pc = "buildScop"
    /\ pos = 0
    /\ regStack = <<>>
    /\ NestLoops = <<>>
    /\ Scatter = [i \in 1..(MaxLoopDepth + 1) |-> 0]
    /\ Stmts = <<>>
    /\ Parameters = <<>>
    /\ ParameterIds = <<>>
    /\ Context = IslSet(<<>>, <<>>, 0, <<>>)
    /\ realigns = 0
    /\ NewParameters = <<>>
    /\ Expr = NoCall
    /\ PwAff = NoCall
    /\ isl = NewScop(ScopInfo)
    /\ Func = NoFunction

\* Regions the detection has validated, with facts that vary from block to block.
Init == InitScop("valid", MaxFactTokens)

\* The same regions and facts, and facts the detection should have refused.
InitUnvalidated == InitScop("unvalidated", MaxFactTokens)

\* Larger region trees, with the same facts for every block and loop.
InitTree == InitScop("plain", MaxTokens)

\* A loop after the first block of the region, with a block of its own: the
\* facts vary, and with a loop as the maximal region the nest is two deep.
NestTrees == {<<"B", "L", "B", "E">>, <<"T", "L", "B", "E">>}

InitNest == InitScop("valid", MaxFactTokens + 1) /\ tree \in NestTrees

\* A sub-region after the first block, loop or not, with two blocks: the second
\* has the conditions of its own and those of the entry of the sub-region.
CondTrees == {<<"B", "R", "B", "B", "E">>, <<"B", "L", "B", "B", "E">>, <<"B", "R", "T", "B", "E">>}

InitCond == InitScop("valid", MaxFactTokens + 2) /\ tree \in CondTrees

\* One block, alone or in a loop behind a block without accesses, with a
\* comparison of every kind.
InitCompared ==
    InitScop("compared", MaxFactTokens + 1) /\ tree \in {<<"B">>, <<"T", "L", "B", "E">>}

Bounds(loops) ==
    CASE profile = "plain" -> {ParamN}
      [] profile = "valid" -> ValidBounds(loops)
      [] profile = "compared" -> {ParamN}
      [] profile = "unvalidated" -> ValidBounds(loops) \cup UnvalidatedBounds(loops)

Facts(loops) ==
    CASE profile = "plain" -> {PlainFacts}
      [] profile = "valid" -> ValidFacts(loops)
      [] profile = "compared" -> ComparedFacts(loops)
      [] profile = "unvalidated" -> ValidFacts(loops) \cup UnvalidatedFacts(loops)

\* Scop::buildScop from its entry to the loop over the elements.
EnterRegion ==
    /\ pc = "buildScop"
    /\ IF pos = 0 THEN TRUE ELSE pos <= Len(tree) /\ IsOpen(tree[pos])
    /\ LET L == IsLoopRegion(tree, topIsLoop, pos)
           Nest == IF L THEN Append(NestLoops, pos) ELSE NestLoops
           loopDepth == Len(Nest)
       IN  /\ NestLoops' = Nest
           /\ IF L THEN \E b \in Bounds(Nest) : LoopBounds' = (pos :> b) @@ LoopBounds
                   ELSE LoopBounds' = LoopBounds
           /\ pc' = IF Len(Scatter) > loopDepth THEN "buildScop" ELSE "aborted"
    /\ regStack' = Append(regStack, pos)
    /\ pos' = pos + 1
    /\ UNCHANGED <<isl, inputs, calls, BBConds, AccFuncMap, Scatter, Stmts, Parameters, ParameterIds,
                   Context, realigns>>

\* A block without access functions: isTrivialBB, continue.
SkipTrivialBB ==
    /\ pc = "buildScop"
    /\ pos >= 1 /\ pos <= Len(tree) /\ tree[pos] = "T"
    /\ \E f \in Facts(NestLoops) : BBConds' = (pos :> f.conds) @@ BBConds
    /\ pos' = pos + 1
    /\ UNCHANGED <<isl, inputs, calls, LoopBounds, AccFuncMap, pc, regStack, NestLoops, Scatter, Stmts,
                   Parameters, ParameterIds, Context, realigns>>

\* ++Scatter[loopDepth] after a statement.
ScatterAfterStmt(Scat, loopDepth) == [Scat EXCEPT ![loopDepth + 1] = @ + 1]

\* Mutant: the counter of the level above is not stepped.
ScatterAfterLoop_NoStep(Scat, loopDepth) == [Scat EXCEPT ![loopDepth + 1] = 0]

\* Scatter[loopDepth] = 0 and ++Scatter[loopDepth-1] on leaving a loop.
ScatterAfterLoop(Scat, loopDepth) == [Scat EXCEPT ![loopDepth + 1] = 0, ![loopDepth] = @ + 1]

\* Mutant: the new statement goes to the front of the list.
AddStmt_Front(S) ==
    /\ Parameters' = S.T.Parameters
    /\ ParameterIds' = S.T.ParameterIds
    /\ IF S.aborted
       THEN /\ pc' = "aborted"
            /\ UNCHANGED <<Stmts, Scatter, pos>>
       ELSE /\ pc' = pc
            /\ Stmts' = <<S.stmt>> \o Stmts
            /\ Scatter' = ScatterAfterStmt(Scatter, Len(NestLoops))
            /\ pos' = pos + 1

\* The statement S of the block is built: it joins the Scop, or the process stops.
AddStmt(S) ==
    /\ Parameters' = S.T.Parameters
    /\ ParameterIds' = S.T.ParameterIds
    /\ IF S.aborted
       THEN /\ pc' = "aborted"
            /\ UNCHANGED <<Stmts, Scatter, pos>>
       ELSE /\ pc' = pc
            /\ Stmts' = Append(Stmts, S.stmt)
            /\ Scatter' = ScatterAfterStmt(Scatter, Len(NestLoops))
            /\ pos' = pos + 1

\* A block with access functions: a new ScopStmt, then ++Scatter[loopDepth].
BuildStmt ==
    /\ pc = "buildScop"
    /\ pos >= 1 /\ pos <= Len(tree) /\ tree[pos] = "B"
    /\ \E f \in Facts(NestLoops) : \E ub \in Outcomes(Len(NestLoops)) :
          /\ BBConds' = (pos :> f.conds) @@ BBConds
          /\ AccFuncMap' = (pos :> f.accs) @@ AccFuncMap
          /\ AddStmt(ScopStmt(Table(Parameters, ParameterIds), pos, BlockName(pos), NestLoops,
                              regStack, Scatter,
                              [bounds |-> LoopBounds, conds |-> (pos :> f.conds) @@ BBConds,
                               accs |-> f.accs, entryOf |-> EntryOf(tree),
                               depthOf |-> getLoopDepth(tree, topIsLoop),
                               MaxDepth |-> MaxLoopDepth, ParamSpace |-> Context.params],
                              ub))
    /\ UNCHANGED <<isl, inputs, calls, LoopBounds, regStack, NestLoops, Context, realigns>>

\* The end of buildScop: leaving a loop resets its counter and steps the
\* counter of the level above.
ExitRegion ==
    /\ pc = "buildScop"
    /\ regStack # <<>>
    /\ IF pos = Len(tree) + 1 THEN TRUE ELSE pos >= 1 /\ pos <= Len(tree) /\ tree[pos] = "E"
    /\ LET L == IsLoopRegion(tree, topIsLoop, regStack[Len(regStack)])
           loopDepth == Len(NestLoops)
       IN  IF L
           THEN /\ Scatter' = ScatterAfterLoop(Scatter, loopDepth)
                /\ NestLoops' = SubSeq(NestLoops, 1, loopDepth - 1)
           ELSE UNCHANGED <<Scatter, NestLoops>>
    /\ regStack' = SubSeq(regStack, 1, Len(regStack) - 1)
    /\ pc' = IF Len(regStack) = 1 THEN "realign" ELSE pc
    /\ pos' = pos + 1
    /\ UNCHANGED <<isl, inputs, calls, LoopBounds, BBConds, AccFuncMap, Stmts, Parameters, ParameterIds,
                   Context, realigns>>

\* Scop::realignParams, as the constructor's last step and again afterwards.

RealignParams ==
    /\ pc \in {"realign", "done"}
    /\ realigns < MaxRealigns
    /\ LET R == realignParams(Table(Parameters, ParameterIds), Context, Stmts)
       IN  /\ Context' = R.Context
           /\ Stmts' = R.Stmts
    /\ pc' = "done"
    /\ realigns' = realigns + 1
    /\ UNCHANGED <<isl, inputs, calls, LoopBounds, BBConds, AccFuncMap, pos, regStack, NestLoops, Scatter,
                   Parameters, ParameterIds>>

Next == EnterRegion \/ SkipTrivialBB \/ BuildStmt \/ ExitRegion \/ RealignParams

Spec == Init /\ [][Next]_vars

SpecUnvalidated == InitUnvalidated /\ [][Next]_vars

SpecTree == InitTree /\ [][Next]_vars

SpecNest == InitNest /\ [][Next]_vars

SpecCond == InitCond /\ [][Next]_vars

SpecCompared == InitCompared /\ [][Next]_vars

\* ------------------------------------------------- the translator on its own
\* The statement the translator works for: the one block of a region without
\* loops, or of a region with one loop around the block.
InitAffinator ==
    /\ \E s \in {<<"B">>, <<"L", "B", "E">>} :
          /\ tree = s
          /\ pos = IndexOf(s, "B")
          /\ NestLoops = LoopsAround(s, FALSE, IndexOf(s, "B"))
          /\ MaxLoopDepth = buildLoopBounds(s, FALSE)
    /\ topIsLoop = FALSE
    /\ profile = "unvalidated"
    /\ NDEBUG \in BOOLEAN
    /\ LoopBounds = <<>>
    /\ BBConds = <<>>
    /\ AccFuncMap = <<>>
    /\ pc = "getPwAff"
    /\ regStack = <<0>>
    /\ Scatter = [i \in 1..(MaxLoopDepth + 1) |-> 0]
    /\ Stmts = <<>>
    /\ Parameters = <<>>
    /\ ParameterIds = <<>>
    /\ Context = IslSet(<<>>, <<>>, 0, <<>>)
    /\ realigns = 0
    /\ NewParameters = <<>>
    /\ Expr = NoCall
    /\ PwAff = NoCall
    /\ isl = NewScop(ScopInfo)
    /\ Func = NoFunction

\* The expressions a caller may put on record as parameters.
ParameterChoices == {ParamN, Trunc(ParamN)}

\* The constants of the narrow widths, every bit pattern.
Patterns == UNION {{Const(w, b) : b \in 0..(Pow2(w) - 1)} : w \in 1..MaxWidth}

\* The factors of the products handed to the translator.
Factors(loops) ==
    {C64(2), Const(8, 255), ParamN, ParamM, SExt(ParamN), Trunc(ParamN), UDiv(ParamN, C64(2)),
     IF loops = <<>> THEN SAdd(<<C64(1), ParamN>>)
     ELSE AddRec(C64(0), C64(1), Innermost(loops))}

Products(loops) ==
    UNION {{SMul(ops) : ops \in [1..n -> Factors(loops)]} : n \in 2..MaxOperands}

Expressions(loops) ==
    Products(loops) \cup Factors(loops) \cup
    {ZExt(ParamM), UMax(<<ParamN, ParamM>>), Unknown("p_x"), Unknown("unnamed"),
     SAdd(<<C64(1), ZExt(ParamN)>>), SAdd(<<ParamN, SMul(<<ParamN, ParamM>>)>>),
     SExt(UDiv(ParamM, ParamN))}
    \cup Patterns \cup {SExt(c) : c \in Patterns}

\* A call of Scop::addParams.
AddParams ==
    /\ pc = "getPwAff"
    /\ \E New \in UNION {[1..n -> ParameterChoices] : n \in 1..2} :
          /\ NewParameters' = New
          /\ Parameters' = addParams(Table(Parameters, ParameterIds), New).Parameters
          /\ ParameterIds' = addParams(Table(Parameters, ParameterIds), New).ParameterIds
    /\ UNCHANGED <<isl, inputs, LoopBounds, BBConds, AccFuncMap, pc, pos, regStack, NestLoops,
                   Scatter, Stmts, Context, realigns, Expr, PwAff>>

\* The call returned R for expression e.
Returned(e, R) ==
    /\ Expr' = e
    /\ PwAff' = R.aff
    /\ Parameters' = R.T.Parameters
    /\ ParameterIds' = R.T.ParameterIds
    /\ pc' = IF R.aff.kind = "abort" THEN "aborted" ELSE "translated"

\* A call of SCEVAffinator::getPwAff for the statement.
GetPwAff ==
    /\ pc = "getPwAff"
    /\ \E e \in Expressions(NestLoops) : \E ub \in Outcomes(Len(NestLoops)) :
          /\ NewParameters' = getParamsInAffineExpr(e)
          /\ Returned(e, getPwAff(Table(Parameters, ParameterIds), Len(NestLoops),
                                  getLoopDepth(tree, topIsLoop), e, ub.aff))
    /\ UNCHANGED <<isl, inputs, LoopBounds, BBConds, AccFuncMap, pos, regStack, NestLoops,
                   Scatter, Stmts, Context, realigns>>

NextAffinator == AddParams \/ GetPwAff

SpecAffinator == InitAffinator /\ [][NextAffinator]_vars

\* ----------------------------------------------------- the pass at work
\* The regions the pass is run on.
PassTrees == {<<"T", "B">>, <<"B", "B">>}

\* ScopInfo::ScopInfo has returned.
InitPass ==
    /\ isl = ScopInfo
    /\ Func = NoFunction
    /\ pc = "idle"
    /\ profile = "plain"
    /\ NDEBUG \in BOOLEAN
    /\ tree = <<>>
    /\ topIsLoop = FALSE
    /\ MaxLoopDepth = 0
    /\ LoopBounds = <<>>
    /\ BBConds = <<>>
    /\ AccFuncMap = <<>>
    /\ pos = 0
    /\ regStack = <<>>
    /\ NestLoops = <<>>
    /\ Scatter = <<0>>
    /\ Stmts = <<>>
    /\ Parameters = <<>>
    /\ ParameterIds = <<>>
    /\ Context = IslSet(<<>>, <<>>, 0, <<>>)
    /\ realigns = 0
    /\ NewParameters = <<>>
    /\ Expr = NoCall
    /\ PwAff = NoCall

\* All of the Scop but the objects its fields hold.
scop == <<inputs, calls, LoopBounds, BBConds, AccFuncMap, pc, pos, regStack, NestLoops, Scatter,
          Parameters, ParameterIds, realigns>>

\* ScopInfo::runOnRegion, called when the memory of the run before is released:
\* there is no TempScop for the region, or the constructor of a Scop starts.
RunOnRegion ==
    /\ pc = "idle"
    /\ isl.run < MaxRuns
    /\ \/ /\ isl' = [isl EXCEPT !.op = "runOnRegion", !.calls = @ + 1]
          /\ isl.calls < MaxCalls
          /\ UNCHANGED <<scop, Stmts, Context>>
       \/ /\ \E s \in PassTrees :
                /\ tree' = s
                /\ MaxLoopDepth' = buildLoopBounds(s, FALSE)
                /\ Scatter' = [i \in 1..(buildLoopBounds(s, FALSE) + 1) |-> 0]
          /\ isl' = NewScop(isl)
          /\ pc' = "buildScop"
          /\ UNCHANGED <<topIsLoop, profile, NDEBUG, Func, calls, LoopBounds, BBConds, AccFuncMap, pos,
                         regStack, NestLoops, Stmts, Parameters, ParameterIds, Context, realigns>>

GetScattering ==
    /\ pc = "done"
    /\ isl.calls < MaxCalls
    /\ \E k \in DOMAIN Stmts :
          isl' = Called(isl_copy(isl, SlotOf(isl, Field("Scattering", k, 0)), Stmts[k].Scattering),
                        "getScattering")
    /\ UNCHANGED <<scop, Stmts, Context>>

SetScattering ==
    /\ pc = "done"
    /\ isl.calls < MaxCalls
    /\ \E k \in DOMAIN Stmts : \E New \in {r \in DOMAIN isl.held : isl.held[r].kind = "map"} :
          /\ isl' = Called(setScattering(isl, k, New), "setScattering")
          /\ Stmts' = [Stmts EXCEPT ![k].Scattering = isl.held[New]]
    /\ UNCHANGED <<scop, Context>>

GetNewAccessRelation ==
    /\ pc = "done"
    /\ isl.calls < MaxCalls
    /\ \E k \in DOMAIN Stmts : \E j \in DOMAIN Stmts[k].MemAccs :
          isl' = Called(isl_copy(isl, SlotOf(isl, Field("newAccessRelation", k, j)),
                                 Stmts[k].MemAccs[j].newAccessRelation),
                        "getNewAccessRelation")
    /\ UNCHANGED <<scop, Stmts, Context>>

SetNewAccessRelation ==
    /\ pc = "done"
    /\ isl.calls < MaxCalls
    /\ \E k \in DOMAIN Stmts : \E j \in DOMAIN Stmts[k].MemAccs :
       \E New \in {r \in DOMAIN isl.held : isl.held[r].kind = "map"} :
          /\ isl' = Called(setNewAccessRelation(isl, k, j, New), "setNewAccessRelation")
          /\ Stmts' = [Stmts EXCEPT ![k].MemAccs[j].newAccessRelation = isl.held[New]]
    /\ UNCHANGED <<scop, Context>>

GetContext ==
    /\ pc = "done"
    /\ isl.calls < MaxCalls
    /\ isl' = Called(isl_copy(isl, SlotOf(isl, Field("Context", 0, 0)), Context), "getContext")
    /\ UNCHANGED <<scop, Stmts, Context>>

SetContext ==
    /\ pc = "done"
    /\ isl.calls < MaxCalls
    /\ \E New \in {r \in DOMAIN isl.held : isl.held[r].kind = "set"} :
          /\ isl' = Called(setContext(isl, New), "setContext")
          /\ Context' = isl_set_align_params(isl.held[New], Context.params)
    /\ UNCHANGED <<scop, Stmts>>

\* MemoryAccess::isStrideX: getStride works on references of its own to the
\* access relation and the scattering and releases all it has made.
IsStrideX ==
    /\ pc = "done"
    /\ isl.calls < MaxCalls
    /\ \E k \in DOMAIN Stmts : \E j \in DOMAIN Stmts[k].MemAccs :
          isl' = Called(isl_read(isl_read(isl, SlotOf(isl, Field("AccessRelation", k, j))),
                                 SlotOf(isl, Field("Scattering", k, 0))),
                        "isStrideX")
    /\ UNCHANGED <<scop, Stmts, Context>>

\* The Scop is gone: what is left of it in the state is as in InitPass.
ScopDeleted ==
    /\ tree' = <<>>
    /\ topIsLoop' = FALSE
    /\ MaxLoopDepth' = 0
    /\ LoopBounds' = <<>>
    /\ BBConds' = <<>>
    /\ AccFuncMap' = <<>>
    /\ pos' = 0
    /\ regStack' = <<>>
    /\ NestLoops' = <<>>
    /\ Scatter' = <<0>>
    /\ Stmts' = <<>>
    /\ Parameters' = <<>>
    /\ ParameterIds' = <<>>
    /\ Context' = IslSet(<<>>, <<>>, 0, <<>>)
    /\ realigns' = 0
    /\ UNCHANGED <<profile, NDEBUG, calls, Func>>

\* ScopInfo::releaseMemory, called once the last user of the pass has run on
\* the region.
ReleaseMemory ==
    /\ pc = "done"
    /\ isl' = clear(isl, Stmts, TRUE)
    /\ pc' = "idle"
    /\ ScopDeleted

\* ScopInfo::~ScopInfo.
DestroyScopInfo ==
    /\ pc \in {"idle", "done"}
    /\ isl' = isl_ctx_free(clear(isl, Stmts, pc = "done"))
    /\ pc' = "destroyed"
    /\ ScopDeleted

NextPass ==
    \/ RunOnRegion
    \/ Next
    \/ GetScattering
    \/ SetScattering
    \/ GetNewAccessRelation
    \/ SetNewAccessRelation
    \/ GetContext
    \/ SetContext
    \/ IsStrideX
    \/ ReleaseMemory
    \/ DestroyScopInfo

SpecPass == InitPass /\ [][NextPass]_vars

\* --------------------------------------------------------- names at work
\* The values whose identifiers name blocks and arrays: identifiers of LLVM
\* values hold letters, digits, '.', '_' and more.
NamedValues == {"for.body", "for_body", "for.b.dy", "forbody", "A"}

\* A region of two blocks in a row, each with a read and a write: the two
\* blocks have distinct identifiers, and so have the two base addresses.
InitNames ==
    /\ \E bs, as \in {x \in NamedValues \X NamedValues : x[1] # x[2]} :
          Func = [kind |-> "names", blocks |-> bs, bases |-> as]
    /\ tree = <<"B", "B">>
    /\ topIsLoop = FALSE
    /\ MaxLoopDepth = 0
    /\ profile = "plain"
    /\ NDEBUG = FALSE
    /\ LoopBounds = <<>>
    /\ BBConds = <<>>
    /\ AccFuncMap = <<>>
    /\ pc = "buildScop"
    /\ pos = 0
    /\ regStack = <<>>
    /\ NestLoops = <<>>
    /\ Scatter = <<0>>
    /\ Stmts = <<>>
    /\ Parameters = <<>>
    /\ ParameterIds = <<>>
    /\ Context = IslSet(<<>>, <<>>, 0, <<>>)
    /\ realigns = 0
    /\ NewParameters = <<>>
    /\ Expr = NoCall
    /\ PwAff = NoCall
    /\ isl = ScopInfo

\* A new ScopStmt for a block with the identifier and the access functions the
\* function gives it.
BuildNamedStmt ==
    /\ pc = "buildScop"
    /\ Func.kind = "names"
    /\ pos >= 1 /\ pos <= Len(tree) /\ tree[pos] = "B"
    /\ LET accs == <<IRAccess("READ", Func.bases[1], C64(0), 4, TRUE),
                     IRAccess("WRITE", Func.bases[2], C64(0), 4, TRUE)>>
       IN  /\ AccFuncMap' = (pos :> accs) @@ AccFuncMap
           /\ BBConds' = (pos :> <<>>) @@ BBConds
           /\ AddStmt(ScopStmt(Table(Parameters, ParameterIds), pos,
                               ValueName(Func.blocks[pos]), NestLoops, regStack, Scatter,
                               [bounds |-> LoopBounds, conds |-> (pos :> <<>>) @@ BBConds,
                                accs |-> accs,
                                entryOf |-> EntryOf(tree),
                                depthOf |-> getLoopDepth(tree, topIsLoop),
                                MaxDepth |-> MaxLoopDepth, ParamSpace |-> Context.params],
                               Failing))
    /\ UNCHANGED <<isl, inputs, calls, LoopBounds, regStack, NestLoops, Context, realigns>>

NextNames == EnterRegion \/ BuildNamedStmt \/ ExitRegion

SpecNames == InitNames /\ [][NextNames]_vars

\* ------------------------------------------------ the extraction pass at work
\* A function as TempScopInfo sees it.  Its blocks are 1..n, block 1 is the
\* entry of the function and block n returns.  succ[b] holds the successors of
\* the terminator of b: two for a conditional branch, the true side first.
\* cond[b] is the condition of a conditional branch, R the blocks of the region
\* in the order of its block iterator, entry its entry, loops the loops of the
\* function as sets of blocks, insts[b] the instructions of b but the terminator.
ReturnBlock(succ) == Len(succ)

\* The blocks that can be reached from the blocks of S without entering X.
RECURSIVE Reach(_, _, _)
Reach(succ, S, X) ==
    LET next == S \cup {t \in UNION {Range(succ[b]) : b \in S} : t \notin X}
    IN  IF next = S THEN S ELSE Reach(succ, next, X)

\* DominatorTree::dominates(A, B): every path from the function's entry to B
\* passes A.
Dominates(succ, A, B) == A = B \/ B \notin Reach(succ, {1} \ {A}, {A})

\* PostDominatorTree::dominates(A, B): every path from B to the return passes A.
PostDominates(succ, A, B) == A = B \/ ReturnBlock(succ) \notin Reach(succ, {B}, {A})

\* DomTreeNode::getIDom: the strict dominator that all others dominate.
IDom(succ, B) ==
    LET strict == {A \in DOMAIN succ : A # B /\ Dominates(succ, A, B)}
    IN  CHOOSE A \in strict : \A D \in strict : Dominates(succ, D, A)

\* The condition of a branch: a ConstantInt of type i1 or an ICmpInst.
ConstantInt(v) == [kind |-> "ConstantInt", value |-> v]

ICmpInst(pred, lhs, rhs) == [kind |-> "ICmpInst", pred |-> pred, lhs |-> lhs, rhs |-> rhs]

\* ICmpInst::getInversePredicate.
getInversePredicate(Pred) ==
    CASE Pred = "EQ" -> "NE"
      [] Pred = "NE" -> "EQ"
      [] Pred = "SLT" -> "SGE"
      [] Pred = "SGE" -> "SLT"
      [] Pred = "SGT" -> "SLE"
      [] Pred = "SLE" -> "SGT"
      [] Pred = "ULT" -> "UGE"
      [] Pred = "UGE" -> "ULT"
      [] Pred = "UGT" -> "ULE"
      [] Pred = "ULE" -> "UGT"

\* Mutant: a constant one on the true side gives 0 <= 1.
buildAffineCondition_AsCommented(V, inverted) ==
    IF V.kind = "ConstantInt"
    THEN IF (V.value = 1) # inverted
         THEN Comparison(Const(1, 0), Const(1, 1), "SLE")
         ELSE Comparison(Const(1, 0), Const(1, 1), "SGE")
    ELSE Comparison(V.lhs, V.rhs, IF inverted THEN getInversePredicate(V.pred) ELSE V.pred)

\* TempScopInfo::buildAffineCondition.  The constants 0 and 1 have the type of
\* the condition, which is i1.
buildAffineCondition(V, inverted) ==
    IF V.kind = "ConstantInt"
    THEN LET LHS == Const(1, 0)
             RHS == Const(1, 1)
         IN  IF (V.value = 1) = inverted
             THEN Comparison(LHS, RHS, "SLE")
             ELSE Comparison(LHS, RHS, "SGE")
    ELSE LET Pred == IF inverted THEN getInversePredicate(V.pred) ELSE V.pred
         IN  Comparison(V.lhs, V.rhs, Pred)

\* Mutant: the branch is skipped when BB itself post-dominates it.
RECURSIVE ConditionBranches_PostDominatedByBB(_, _, _, _)
ConditionBranches_PostDominatedByBB(Fn, BBNode, EntryNode, BB) ==
    IF BBNode = EntryNode THEN <<>>
    ELSE LET Br == IDom(Fn.succ, BBNode)
             rest == ConditionBranches_PostDominatedByBB(Fn, Br, EntryNode, BB)
         IN  IF PostDominates(Fn.succ, BB, Br) THEN rest
             ELSE IF Len(Fn.succ[Br]) # 2 THEN rest
             ELSE <<[block |-> Br, inverted |-> Dominates(Fn.succ, Fn.succ[Br][2], BB)]>>
                  \o rest

\* The walk of buildCondition up the dominator tree from BBNode to EntryNode:
\* the branches whose condition is recorded for BB, and whether BB is on the
\* ELSE side.
RECURSIVE ConditionBranches(_, _, _, _)
ConditionBranches(Fn, BBNode, EntryNode, BB) ==
    IF BBNode = EntryNode THEN <<>>
    ELSE LET CurBB == BBNode
             Br == IDom(Fn.succ, BBNode)
             rest == ConditionBranches(Fn, Br, EntryNode, BB)
         IN  IF PostDominates(Fn.succ, CurBB, Br) THEN rest
             ELSE IF Len(Fn.succ[Br]) # 2 THEN rest
             ELSE <<[block |-> Br, inverted |-> Dominates(Fn.succ, Fn.succ[Br][2], BB)]>>
                  \o rest

\* Mutant: every condition is recorded as it stands in the branch.
buildCondition_NeverInverted(Fn, BB, RegionEntry) ==
    LET On == ConditionBranches(Fn, BB, RegionEntry, BB)
    IN  [i \in DOMAIN On |-> buildAffineCondition(Fn.cond[On[i].block], FALSE)]

\* TempScopInfo::buildCondition: the list Cond.
buildCondition(Fn, BB, RegionEntry) ==
    LET On == ConditionBranches(Fn, BB, RegionEntry, BB)
    IN  [i \in DOMAIN On |-> buildAffineCondition(Fn.cond[On[i].block], On[i].inverted)]

\* An instruction: its name, what it is, whether canSynthesize holds for it,
\* and its users in the order of its use list.
Instruction(name, op, synth, users) ==
    [name |-> name, op |-> op, synth |-> synth, users |-> users]

\* A user that is an instruction of block bb, and one that is none.
User(bb, synth) == [inst |-> TRUE, bb |-> bb, synth |-> synth]

StrangeUser == [inst |-> FALSE, bb |-> 0, synth |-> FALSE]

ZeroOffset == C64(0)

\* The loop over the users in buildScalarDependences from user i on: whether
\* a user in another statement was seen, and the read accesses with their block.
RECURSIVE ScalarUses(_, _, _, _)
ScalarUses(Inst, ParentBB, R, i) ==
    IF i > Len(Inst.users) THEN [AnyCrossStmtUse |-> FALSE, reads |-> <<>>]
    ELSE LET U == Inst.users[i]
             rest == ScalarUses(Inst, ParentBB, R, i + 1)
         IN  IF ~U.inst THEN rest
             ELSE IF U.bb = ParentBB THEN rest
             ELSE IF U.synth THEN rest
             ELSE IF U.bb \notin Range(R) THEN [rest EXCEPT !.AnyCrossStmtUse = TRUE]
             ELSE [AnyCrossStmtUse |-> TRUE,
                   reads |-> <<[bb |-> U.bb,
                                acc |-> IRAccess("SCALARREAD", Inst.name, ZeroOffset, 1, TRUE)]>>
                             \o rest.reads]

\* Mutant: a user outside the region does not count as a use in another statement.
buildScalarDependences_InRegionOnly(Inst, ParentBB, R) ==
    IF Inst.synth THEN [AnyCrossStmtUse |-> FALSE, reads |-> <<>>]
    ELSE [ScalarUses(Inst, ParentBB, R, 1)
             EXCEPT !.AnyCrossStmtUse = ScalarUses(Inst, ParentBB, R, 1).reads # <<>>]

\* TempScopInfo::buildScalarDependences.
buildScalarDependences(Inst, ParentBB, R) ==
    IF Inst.synth THEN [AnyCrossStmtUse |-> FALSE, reads |-> <<>>]
    ELSE ScalarUses(Inst, ParentBB, R, 1)

\* TempScopInfo::buildIRAccess: the access the analyses find for a load or store.
buildIRAccess(Inst) ==
    IRAccess(IF Inst.op = "load" THEN "READ" ELSE "WRITE", "A", C64(0), 4, TRUE)

\* push_back on the list of a block, which is created when it is not there.
PushAccess(Map, bb, acc) ==
    (bb :> ((IF bb \in DOMAIN Map THEN Map[bb] ELSE <<>>) \o <<acc>>)) @@ Map

RECURSIVE PushReads(_, _)
PushReads(Map, reads) ==
    IF reads = <<>> THEN Map
    ELSE PushReads(PushAccess(Map, Head(reads).bb, Head(reads).acc), Tail(reads))

\* The loop of buildAccessFunctions from instruction i of BB on: the functions
\* of the block and the map with the reads of the users.
RECURSIVE AccessFunctionsFrom(_, _, _, _, _)
AccessFunctionsFrom(Fn, BB, i, Functions, Map) ==
    IF i > Len(Fn.insts[BB]) THEN [Functions |-> Functions, Map |-> Map]
    ELSE LET Inst == Fn.insts[BB][i]
             memory == IF Inst.op \in {"load", "store"} THEN <<buildIRAccess(Inst)>> ELSE <<>>
             deps == IF Inst.op # "store" THEN buildScalarDependences(Inst, BB, Fn.R)
                     ELSE [AnyCrossStmtUse |-> FALSE, reads |-> <<>>]
             write == IF deps.AnyCrossStmtUse
                      THEN <<IRAccess("SCALARWRITE", Inst.name, ZeroOffset, 1, TRUE)>>
                      ELSE <<>>
         IN  AccessFunctionsFrom(Fn, BB, i + 1, Functions \o memory \o write,
                                 PushReads(Map, deps.reads))

\* TempScopInfo::buildAccessFunctions: the map afterwards.
buildAccessFunctions(Fn, BB, Map) ==
    LET Done == AccessFunctionsFrom(Fn, BB, 1, <<>>, Map)
    IN  IF Done.Functions = <<>> THEN Done.Map
        ELSE (BB :> ((IF BB \in DOMAIN Done.Map THEN Done.Map[BB] ELSE <<>>) \o Done.Functions))
             @@ Done.Map

\* A function, its region and its loops, before the conditions and the
\* instructions are chosen.
Shape(succ, R, loops) == [succ |-> succ, R |-> R, entry |-> R[1], loops |-> loops]

\* The regions the detection lets through: a conditional branch ends the entry
\* of a region or is the exit of a loop.  An if with both sides, an if with one
\* side, two ifs in a row, an if in an if (the whole and the inner one as the
\* region), a loop that is left at its header, one with an if in its body, one
\* that is left at its latch, a loop in a loop, and blocks in a row.
Shapes ==
    {Shape(<<<<2>>, <<3, 4>>, <<5>>, <<5>>, <<6>>, <<>>>>, <<2, 3, 4, 5>>, {}),
     Shape(<<<<2>>, <<3, 4>>, <<4>>, <<5>>, <<>>>>, <<2, 3, 4>>, {}),
     Shape(<<<<2>>, <<3, 4>>, <<4>>, <<5, 6>>, <<6>>, <<7>>, <<>>>>, <<2, 3, 4, 5, 6>>, {}),
     Shape(<<<<2>>, <<3, 6>>, <<4, 5>>, <<5>>, <<6>>, <<7>>, <<>>>>, <<2, 3, 4, 5, 6>>, {}),
     Shape(<<<<2>>, <<3, 6>>, <<4, 5>>, <<5>>, <<6>>, <<7>>, <<>>>>, <<3, 4>>, {}),
     Shape(<<<<2>>, <<3, 4>>, <<2>>, <<5>>, <<>>>>, <<2, 3, 4>>, {{2, 3}}),
     Shape(<<<<2>>, <<3, 6>>, <<4, 5>>, <<5>>, <<2>>, <<7>>, <<>>>>, <<2, 3, 4, 5, 6>>,
           {{2, 3, 4, 5}}),
     Shape(<<<<2>>, <<3>>, <<2, 4>>, <<5>>, <<>>>>, <<2, 3, 4>>, {{2, 3}}),
     Shape(<<<<2>>, <<3, 6>>, <<4, 5>>, <<3>>, <<2>>, <<7>>, <<>>>>, <<2, 3, 4, 5, 6>>,
           {{2, 3, 4, 5}, {3, 4}}),
     Shape(<<<<2>>, <<3>>, <<4>>, <<>>>>, <<2, 3>>, {})}

CondBlocks(succ) == {b \in DOMAIN succ : Len(succ[b]) = 2}

\* The conditional branches of the blocks of S with their two sides exchanged.
Swapped(succ, S) ==
    [b \in DOMAIN succ |-> IF b \in S THEN <<succ[b][2], succ[b][1]>> ELSE succ[b]]

Predicates == {"EQ", "NE", "SLT", "SLE", "SGT", "SGE", "ULT"}

\* The conditions the branch of block b may have.
Conditions(b) ==
    {ConstantInt(0), ConstantInt(1)} \cup {ICmpInst(p, ParamN, C64(b)) : p \in Predicates}

StoreInst == Instruction("st", "store", FALSE, <<>>)

\* The users a definition in block db may have: in its own block, in another
\* block of the region, there with a synthesizable user, behind the region,
\* and a user that is no instruction.
UserChoices(sh, db) ==
    LET o == CHOOSE b \in Range(sh.R) \ {db} : \A c \in Range(sh.R) \ {db} : c <= b
    IN  {User(db, FALSE), User(o, FALSE), User(o, TRUE), User(ReturnBlock(sh.succ), FALSE),
         StrangeUser}

\* The definitions block db may hold.
Definitions(sh, db) ==
    {StoreInst} \cup
    UNION {{Instruction("x", d.op, d.synth, us) :
               us \in UNION {[1..k -> UserChoices(sh, db)] : k \in 0..MaxUsers}} :
           d \in {[op |-> "load", synth |-> FALSE], [op |-> "other", synth |-> FALSE],
                  [op |-> "other", synth |-> TRUE]}}

\* The functions with every choice of conditions and sides and a store in each
\* block of the region, and those with every choice of one definition.
Functions ==
    UNION {{[succ |-> Swapped(sh.succ, S), R |-> sh.R, entry |-> sh.entry, loops |-> sh.loops,
             cond |-> c,
             insts |-> [b \in DOMAIN sh.succ |-> IF b \in Range(sh.R) THEN <<StoreInst>> ELSE <<>>]] :
               S \in SUBSET CondBlocks(sh.succ),
               c \in {x \in [CondBlocks(sh.succ) ->
                                 UNION {Conditions(b) : b \in CondBlocks(sh.succ)}] :
                          \A b \in CondBlocks(sh.succ) : x[b] \in Conditions(b)}} :
           sh \in Shapes}
    \cup
    UNION {UNION {{[succ |-> sh.succ, R |-> sh.R, entry |-> sh.entry, loops |-> sh.loops,
                    cond |-> [b \in CondBlocks(sh.succ) |-> ICmpInst("SLT", ParamN, C64(b))],
                    insts |-> [b \in DOMAIN sh.succ |-> IF b = db THEN <<D>> ELSE <<>>]] :
                      D \in Definitions(sh, db)} :
                  db \in Range(sh.R)} :
           sh \in Shapes}

\* LoopInfo::getLoopFor: the innermost loop around BB, none as the empty set.
getLoopFor(Fn, BB) ==
    IF \E L \in Fn.loops : BB \in L
    THEN CHOOSE L \in Fn.loops : BB \in L /\ \A M \in Fn.loops : BB \in M => L \subseteq M
    ELSE {}

\* TempScopInfo::buildLoopBounds: the loops of the region with a block of it,
\* each with its depth below the outermost loop of the region.
LoopDepthsOf(Fn) ==
    {[L |-> L,
      LoopDepth |-> Cardinality({M \in Fn.loops : L \subseteq M /\ M \subseteq Range(Fn.R)})] :
        L \in {M \in {getLoopFor(Fn, b) : b \in Range(Fn.R)} : M # {} /\ M \subseteq Range(Fn.R)}}

MaxLoopDepthOf(Fn) ==
    IF LoopDepthsOf(Fn) = {} THEN 0
    ELSE CHOOSE d \in {x.LoopDepth : x \in LoopDepthsOf(Fn)} :
             \A x \in LoopDepthsOf(Fn) : x.LoopDepth <= d

\* TempScopInfo::runOnFunction at the call of buildTempScop for a region.
InitTempScop ==
    /\ Func \in Functions
    /\ pc = "buildAccessFunctions"
    /\ pos = 1
    /\ BBConds = <<>>
    /\ AccFuncMap = <<>>
    /\ LoopBounds = <<>>
    /\ MaxLoopDepth = 0
    /\ tree = <<>>
    /\ topIsLoop = FALSE
    /\ profile = "plain"
    /\ NDEBUG = FALSE
    /\ regStack = <<>>
    /\ NestLoops = <<>>
    /\ Scatter = <<0>>
    /\ Stmts = <<>>
    /\ Parameters = <<>>
    /\ ParameterIds = <<>>
    /\ Context = IslSet(<<>>, <<>>, 0, <<>>)
    /\ realigns = 0
    /\ NewParameters = <<>>
    /\ Expr = NoCall
    /\ PwAff = NoCall
    /\ isl = ScopInfo

\* What the extraction pass leaves alone.
builder == <<tree, topIsLoop, profile, NDEBUG, Func, regStack, NestLoops, Scatter, Stmts,
             Parameters, ParameterIds, Context, realigns, calls, isl>>

\* The body of the loop of buildTempScop, first half.
BuildAccessFunctions ==
    /\ pc = "buildAccessFunctions"
    /\ pos <= Len(Func.R)
    /\ AccFuncMap' = buildAccessFunctions(Func, Func.R[pos], AccFuncMap)
    /\ pc' = "buildCondition"
    /\ UNCHANGED <<builder, pos, BBConds, LoopBounds, MaxLoopDepth>>

\* Second half: an entry of BBConds when the list is not empty.
BuildCondition ==
    /\ pc = "buildCondition"
    /\ LET BB == Func.R[pos]
           Cond == buildCondition(Func, BB, Func.entry)
       IN  BBConds' = IF Cond # <<>> THEN (BB :> Cond) @@ BBConds ELSE BBConds
    /\ pos' = pos + 1
    /\ pc' = IF pos = Len(Func.R) THEN "buildLoopBounds" ELSE "buildAccessFunctions"
    /\ UNCHANGED <<builder, AccFuncMap, LoopBounds, MaxLoopDepth>>

\* The end of buildTempScop.
BuildLoopBounds ==
    /\ pc = "buildLoopBounds"
    /\ LoopBounds' = [L \in {x.L : x \in LoopDepthsOf(Func)} |-> ParamN]
    /\ MaxLoopDepth' = MaxLoopDepthOf(Func)
    /\ pc' = "extracted"
    /\ UNCHANGED <<builder, pos, BBConds, AccFuncMap>>

NextTempScop == BuildAccessFunctions \/ BuildCondition \/ BuildLoopBounds

SpecTempScop == InitTempScop /\ [][NextTempScop]_vars

\* ------------------------------------------------------------------ claims
\* The points of an iteration space of n dimensions.
Points(n) == [1..n -> 0..MaxIter]

\* The number of leading loops two statements share.
RECURSIVE CommonLoops(_, _)
CommonLoops(l1, l2) ==
    IF l1 = <<>> \/ l2 = <<>> \/ Head(l1) # Head(l2) THEN 0
    ELSE 1 + CommonLoops(Tail(l1), Tail(l2))

\* The scattering tuple of point iv, when the map fixes it.
Determined(M) == \A k \in DOMAIN M.dims : M.dims[k].t \in {"in", "fix"}

ScatTuple(M, iv) ==
    [k \in DOMAIN M.dims |-> IF M.dims[k].t = "in" THEN iv[M.dims[k].i + 1] ELSE M.dims[k].v]

LexLess(t1, t2) ==
    \E k \in DOMAIN t1 : k \in DOMAIN t2 /\ t1[k] < t2[k] /\ \A j \in 1..(k - 1) : t1[j] = t2[j]

\* C1: of two statements the one created first has the lexicographically
\* smaller scattering tuple, at all points that agree on the shared iterators.
C1_ScatteringOrder ==
    \A a \in DOMAIN Stmts : \A b \in DOMAIN Stmts :
        a < b =>
            /\ Determined(Stmts[a].Scattering)
            /\ Determined(Stmts[b].Scattering)
            /\ \A iv1 \in Points(Len(Stmts[a].IVS)) : \A iv2 \in Points(Len(Stmts[b].IVS)) :
                  (\A k \in 1..CommonLoops(Stmts[a].IVS, Stmts[b].IVS) : iv1[k] = iv2[k])
                  => LexLess(ScatTuple(Stmts[a].Scattering, iv1),
                             ScatTuple(Stmts[b].Scattering, iv2))

\* Two statements in sibling loops at the same depth, and a third after them.
C1_Witness ==
    /\ pc = "done"
    /\ \E a \in DOMAIN Stmts : \E b \in DOMAIN Stmts :
          /\ a < b
          /\ Len(Stmts[a].IVS) = Len(Stmts[b].IVS)
          /\ Len(Stmts[a].IVS) >= 1
          /\ Innermost(Stmts[a].IVS) # Innermost(Stmts[b].IVS)

\* C2: a new statement's scattering has 2*MaxLoopDepth+1 output dimensions:
\* iterator i at 2i+1 for i < d, Scatter[i] at 2i for i <= d, 0 from 2d+1 on.
C2_Shape(M, d, Scat) ==
    /\ Len(M.dims) = 2 * MaxLoopDepth + 1
    /\ \A i \in 0..(d - 1) : M.dims[2 * i + 2] = InDim(i)
    /\ \A i \in 0..d : M.dims[2 * i + 1] = FixDim(Scat[i + 1])
    /\ \A k \in (2 * d + 1)..(2 * MaxLoopDepth) : M.dims[k + 1] = FixDim(0)

C2_ScatteringShape ==
    [][Len(Stmts') = Len(Stmts) + 1 =>
          C2_Shape(Stmts'[Len(Stmts')].Scattering, Len(Stmts'[Len(Stmts')].IVS), Scatter)]_vars

\* A statement at the full depth, and one above it that is not the first of
\* its level.
C2_Witness ==
    /\ MaxLoopDepth >= 2
    /\ \E a \in DOMAIN Stmts : Len(Stmts[a].IVS) = MaxLoopDepth
    /\ \E a \in DOMAIN Stmts :
          /\ Len(Stmts[a].IVS) < MaxLoopDepth
          /\ \E k \in DOMAIN Stmts[a].Scattering.dims :
                Stmts[a].Scattering.dims[k].t = "fix" /\ Stmts[a].Scattering.dims[k].v > 0

\* The parameter spaces of a statement's domain, scattering and access relations.
StmtSpaces(st) ==
    <<st.Domain.params, st.Scattering.params>> \o
    [k \in DOMAIN st.MemAccs |-> st.MemAccs[k].AccessRelation.params]

\* C3: once the constructor has finished, the context, every domain, every
\* scattering and every access relation have the same parameters in the same order.
C3_SameParameterSpace ==
    pc = "done" =>
        \A s \in DOMAIN Stmts :
            /\ Stmts[s].Domain.kind = "set"
            /\ \A k \in DOMAIN Stmts[s].MemAccs : Stmts[s].MemAccs[k].AccessRelation.kind = "map"
            /\ \A k \in DOMAIN StmtSpaces(Stmts[s]) : StmtSpaces(Stmts[s])[k] = Context.params

\* Two parameters, found by a statement that is not the first, and a relation
\* that refers to none of them.
C3_Witness ==
    /\ pc = "done"
    /\ Len(Context.params) = 2
    /\ Len(Stmts) >= 2
    /\ Stmts[1].MemAccs[1].AccessRelation.dims = <<AffDim(ZeroAff(Len(Stmts[1].IVS)))>>
    /\ \E s \in DOMAIN Stmts : \E k \in DOMAIN Stmts[s].MemAccs :
          Stmts[s].MemAccs[k].AccessRelation.dims = <<FreeDim>>

\* The parameter spaces of all objects of the Scop.
SpacesOf == <<Context.params, [s \in DOMAIN Stmts |-> StmtSpaces(Stmts[s])]>>

\* C4: Scop::realignParams on an aligned Scop leaves every parameter space as it is.
C4_RealignIdempotent ==
    [][(pc = "done" /\ realigns' = realigns + 1) => SpacesOf' = SpacesOf]_vars

\* A second call, on a Scop with statements and two parameters.
C4_Witness ==
    /\ realigns = 2
    /\ Len(Context.params) = 2
    /\ Len(Stmts) >= 2

\* The parameters of New that are not in Old, each once, in order of appearance.
RECURSIVE FirstNew(_, _)
FirstNew(New, Old) ==
    IF New = <<>> THEN <<>>
    ELSE IF Head(New) \in Old THEN FirstNew(Tail(New), Old)
    ELSE <<Head(New)>> \o FirstNew(Tail(New), Old \cup {Head(New)})

C5_Table ==
    /\ DOMAIN ParameterIds = Range(Parameters)
    /\ Cardinality(Range(Parameters)) = Len(Parameters)
    /\ \A i \in DOMAIN Parameters : ParameterIds[Parameters[i]] = i - 1

C5_Call ==
    /\ Parameters' = Parameters \o FirstNew(NewParameters', Range(Parameters))
    /\ \A P \in DOMAIN ParameterIds : P \in DOMAIN ParameterIds' /\ ParameterIds'[P] = ParameterIds[P]

\* C5: the table maps the parameters one to one onto 0..n-1 in order of
\* discovery, and a call of addParams appends the new ones and leaves the rest.
C5_ParameterTable == [](C5_Table) /\ [][C5_Call]_vars

\* The last call named two parameters, the second of which was on record
\* before the first.
C5_Witness ==
    /\ pc = "getPwAff"
    /\ Parameters = <<Trunc(ParamN), ParamN>>
    /\ NewParameters = <<ParamN, Trunc(ParamN)>>

\* The values the parameters on record may take.
Valuations ==
    [{getIdForParam(Table(Parameters, ParameterIds), P) : P \in Range(Parameters)}
        -> 0..MaxParamVal]

\* The offset of access function F of statement st, as the translator sees it.
OffsetAff(st, F) ==
    visit(Table(Parameters, ParameterIds), Len(st.IVS), getLoopDepth(tree, topIsLoop),
          F.offset, AbortAff)

\* C6: at every point of the domain the offset of an affine access is a
\* multiple of the element size, and the relation leads to the quotient.
C6_ExactDivision ==
    \A s \in DOMAIN Stmts : \A k \in DOMAIN Stmts[s].MemAccs :
        AccFuncMap[Stmts[s].BB][k].affine =>
            \A iv \in Points(Len(Stmts[s].IVS)) : \A val \in Valuations :
                InSet(Stmts[s].Domain, iv, val) =>
                    /\ EvalNum(OffsetAff(Stmts[s], AccFuncMap[Stmts[s].BB][k]), iv, val)
                          % AccFuncMap[Stmts[s].BB][k].size = 0
                    /\ DimRelates(Stmts[s].MemAccs[k].AccessRelation.dims[1], iv, val,
                                  EvalNum(OffsetAff(Stmts[s], AccFuncMap[Stmts[s].BB][k]), iv, val)
                                      \div AccFuncMap[Stmts[s].BB][k].size)

ParamsOfComparison(Comp) ==
    Range(getParamsInAffineExpr(Comp.lhs)) \cup Range(getParamsInAffineExpr(Comp.rhs))

\* The parameters the construction of statement st may put on record: those of
\* the bounds of its loops, of the conditions on record and of its affine offsets.
ParametersOf(st, F, conds) ==
    UNION ({Range(getParamsInAffineExpr(LoopBounds[st.IVS[i]])) : i \in DOMAIN st.IVS}
           \cup {UNION {ParamsOfComparison(conds[b][c]) : c \in DOMAIN conds[b]} :
                    b \in DOMAIN conds}
           \cup {Range(getParamsInAffineExpr(F[k].offset)) : k \in {j \in DOMAIN F : F[j].affine}})

C7_Access(st, F) ==
    /\ Len(st.MemAccs) = Len(F)
    /\ \A k \in DOMAIN F :
          /\ ~F[k].affine =>
                /\ st.MemAccs[k].AccessRelation =
                      IslMap(<<>>, st.BaseName, setBaseName(F[k].base), Len(st.IVS), <<FreeDim>>)
                /\ st.MemAccs[k].Type = IF isRead(F[k]) THEN "Read" ELSE "MayWrite"
          /\ (F[k].affine /\ ~isRead(F[k])) => st.MemAccs[k].Type = "Write"
    /\ Range(Parameters') \ Range(Parameters) \subseteq ParametersOf(st, F, BBConds')

\* C7: the access of a fact that is not affine is the universal map into the
\* array, a Read or a MayWrite, and its offset is not translated; an affine
\* write is a Write.
C7_NonAffineAccess ==
    [][Len(Stmts') = Len(Stmts) + 1 =>
          C7_Access(Stmts'[Len(Stmts')], AccFuncMap'[Stmts'[Len(Stmts')].BB])]_vars

\* A statement with a MayWrite and a universal Read, whose offsets name a
\* parameter that is not on record, and a statement with a Write.
C7_Witness ==
    /\ ParamM \notin Range(Parameters)
    /\ \E s \in DOMAIN Stmts :
          /\ Stmts[s].MemAccs[1].Type = "MayWrite"
          /\ Stmts[s].MemAccs[2].Type = "Read"
          /\ Stmts[s].MemAccs[2].AccessRelation.dims = <<FreeDim>>
    /\ \E s \in DOMAIN Stmts : Stmts[s].MemAccs[1].Type = "Write"

\* A product with two factors that are no constants.
NonAffine(e) ==
    e.kind = "mul" /\ Cardinality({i \in DOMAIN e.ops : e.ops[i].kind # "const"}) >= 2

\* An expression of the shapes the translator has a case for.
RECURSIVE Supported(_)
Supported(e) ==
    \/ e.kind \in {"const", "unknown"}
    \/ e.kind \in {"add", "mul", "sext", "addrec"} /\ \A i \in DOMAIN e.ops : Supported(e.ops[i])

\* Apart from products of two non-constant factors, all that is on record is
\* of supported shapes and predicates.
OnlyNonAffine ==
    /\ \A l \in DOMAIN LoopBounds : Supported(LoopBounds[l])
    /\ \A b \in DOMAIN BBConds : \A c \in DOMAIN BBConds[b] :
          /\ BBConds[b][c].pred \in {"EQ", "NE", "SLT", "SLE", "SGT", "SGE"}
          /\ Supported(BBConds[b][c].lhs)
          /\ Supported(BBConds[b][c].rhs)

\* C8: a block under a condition with a non-affine operand gets its
\* statement, and the domain of the statement is a set.
C8_NonAffineCondition ==
    OnlyNonAffine =>
        \A b \in DOMAIN AccFuncMap :
            (\E c \in DOMAIN BBConds[b] : NonAffine(BBConds[b][c].lhs) \/ NonAffine(BBConds[b][c].rhs))
            => \E s \in DOMAIN Stmts : Stmts[s].BB = b /\ Stmts[s].Domain.kind = "set"

\* An expression with an unsupported shape that visit comes to, given table T.
RECURSIVE NeedsUnsupported(_, _)
NeedsUnsupported(T, e) ==
    /\ e \notin DOMAIN T.ParameterIds
    /\ \/ e.kind \in {"trunc", "udiv", "umax", "zext"}
       \/ /\ e.kind \in {"add", "mul", "sext", "addrec"}
          /\ \E i \in DOMAIN e.ops : NeedsUnsupported(T, e.ops[i])

\* C9: the translation of an expression with a truncation, an unsigned
\* division, an unsigned maximum or a zero-extension that is no recorded
\* parameter does not return.
C9_HardFailure ==
    pc = "translated" => ~NeedsUnsupported(Table(Parameters, ParameterIds), Expr)

\* The translations of the operands of the product Expr.
OperandAffs ==
    [i \in DOMAIN Expr.ops |->
        visit(Table(Parameters, ParameterIds), Len(NestLoops), getLoopDepth(tree, topIsLoop),
              Expr.ops[i], AbortAff)]

\* The product of the first k operands at a point.
RECURSIVE ProductAt(_, _, _, _)
ProductAt(affs, k, iv, val) ==
    IF k = 0 THEN 1 ELSE ProductAt(affs, k - 1, iv, val) * EvalNum(affs[k], iv, val)

\* The product of the first k operands takes one value only.
ConstantProduct(affs, k) ==
    \A iv \in Points(Len(NestLoops)) : \A val \in Valuations :
        ProductAt(affs, k, iv, val) =
        ProductAt(affs, k, [i \in 1..Len(NestLoops) |-> 0], [id \in DOMAIN val |-> 0])

\* Operand i takes one value only.
ConstantOperand(affs, i) ==
    \A iv \in Points(Len(NestLoops)) : \A val \in Valuations :
        EvalNum(affs[i], iv, val) =
        EvalNum(affs[i], [k \in 1..Len(NestLoops) |-> 0], [id \in DOMAIN val |-> 0])

\* At every step the product so far or the next operand is a constant.
StepsConstant(affs) ==
    \A i \in 2..Len(affs) : ConstantProduct(affs, i - 1) \/ ConstantOperand(affs, i)

C10_Holds(affs) ==
    /\ PwAff.kind = "aff" =>
          /\ StepsConstant(affs)
          /\ \A iv \in Points(Len(NestLoops)) : \A val \in Valuations :
                EvalNum(PwAff, iv, val) = ProductAt(affs, Len(affs), iv, val)
    /\ ~StepsConstant(affs) => PwAff = NullAff

\* C10: a product of translatable operands has a translation only if at every
\* step the product so far or the next operand is a constant, and then it is
\* the product at every point; else the translator returns NULL.
C10_Product ==
    (/\ pc = "translated"
     /\ Expr.kind = "mul"
     /\ Expr \notin DOMAIN ParameterIds
     /\ \A i \in DOMAIN Expr.ops : Supported(Expr.ops[i]))
    => C10_Holds(OperandAffs)

\* A product of three operands, the constants last, with a translation that
\* is no constant.
C10_Witness ==
    /\ pc = "translated"
    /\ Expr.kind = "mul"
    /\ Expr.ops = <<ParamM, Const(8, 255), C64(2)>>
    /\ PwAff.kind = "aff"
    /\ PwAff.pc = <<-2>>

UnsignedPredicates == {"ULT", "UGT", "ULE", "UGE"}

\* C11: no statement is built for a block that is not the entry of the
\* region and has a comparison with an unsigned predicate on record: the
\* construction of its domain stops the program at that comparison.
C11_UnsignedFailsFast ==
    \A s \in DOMAIN Stmts :
        Stmts[s].BB # EntryOf(tree)[0] =>
            \A c \in DOMAIN BBConds[Stmts[s].BB] :
                BBConds[Stmts[s].BB][c].pred \notin UnsignedPredicates

\* Points around the iteration space, below 0 and above MaxIter included.
PointsAround(n) == [1..n -> (-1)..(MaxIter + 1)]

\* No comparison is on record for the blocks up to the statement's own.
NoConditions(st) == \A b \in DOMAIN BBConds : b <= st.BB => BBConds[b] = <<>>

\* The translated backedge-taken count of the loop at level k of statement st.
TripCount(st, k) ==
    visit(Table(Parameters, ParameterIds), Len(st.IVS), getLoopDepth(tree, topIsLoop),
          LoopBounds[st.IVS[k]], AbortAff)

\* C12: the domain of a statement without branch conditions holds exactly the
\* points with 0 <= i_k <= trip_count(loop_k) at every level k.
C12_LoopBoundsDomain ==
    \A s \in DOMAIN Stmts :
        NoConditions(Stmts[s]) =>
            /\ Stmts[s].Domain.kind = "set"
            /\ Stmts[s].Domain.n = Len(Stmts[s].IVS)
            /\ \A iv \in PointsAround(Len(Stmts[s].IVS)) : \A val \in Valuations :
                  InSet(Stmts[s].Domain, iv, val) <=>
                      \A k \in DOMAIN Stmts[s].IVS :
                          /\ 0 <= iv[k]
                          /\ iv[k] <= EvalNum(TripCount(Stmts[s], k), iv, val)

\* A statement in two loops, the outer one bounded by a parameter and the
\* inner one by the iterator of the outer one.
C12_Witness ==
    \E s \in DOMAIN Stmts :
        /\ NoConditions(Stmts[s])
        /\ Len(Stmts[s].IVS) = 2
        /\ LoopBounds[Stmts[s].IVS[1]] = ParamN
        /\ LoopBounds[Stmts[s].IVS[2]].kind = "addrec"

\* The ICmp predicates on two integers.
PredHolds(pred, l, r) ==
    CASE pred = "EQ" -> l = r
      [] pred = "NE" -> l # r
      [] pred = "SLT" -> l < r
      [] pred = "SLE" -> l <= r
      [] pred = "SGT" -> l > r
      [] pred = "SGE" -> l >= r

\* The value of expression e at point iv of statement st.
ValueAt(st, e, iv, val) ==
    EvalNum(visit(Table(Parameters, ParameterIds), Len(st.IVS), getLoopDepth(tree, topIsLoop),
                  e, AbortAff), iv, val)

ComparisonHolds(st, Comp, iv, val) ==
    PredHolds(Comp.pred, ValueAt(st, Comp.lhs, iv, val), ValueAt(st, Comp.rhs, iv, val))

\* The regions around block b, the sub-regions only.
RegionsAround(b) == {q \in 1..Len(tree) : Encloses(tree, q, b)}

\* The conditions on record are those of a walk up the dominator tree to the
\* entry of the maximal region: none for that entry, and those of the entry of
\* a region among those of the blocks of the region.
ConditionsAsExtracted(b) ==
    /\ b = EntryOf(tree)[0] => BBConds[b] = <<>>
    /\ \A q \in RegionsAround(b) :
          EntryOf(tree)[q] # b => Range(BBConds[EntryOf(tree)[q]]) \subseteq Range(BBConds[b])

\* The one access of a store to A at offset 0.
StoresAtZero(b) == AccFuncMap[b] = <<IRAccess("WRITE", "A", C64(0), 4, TRUE)>>

C13_NoLoops(st) ==
    /\ Len(st.IVS) = 0
    /\ st.Domain.kind = "set"
    /\ st.Domain.n = 0
    /\ \A val \in Valuations :
          InSet(st.Domain, <<>>, val) <=>
              \A c \in DOMAIN BBConds[st.BB] : ComparisonHolds(st, BBConds[st.BB][c], <<>>, val)
    /\ (StoresAtZero(st.BB) /\ BBConds[st.BB] = <<>>) =>
          /\ Len(st.MemAccs) = 1
          /\ st.MemAccs[1].Type = "Write"
          /\ st.MemAccs[1].AccessRelation.kind = "map"
          /\ st.MemAccs[1].AccessRelation.nin = 0
          /\ Len(st.MemAccs[1].AccessRelation.dims) = 1
          /\ \A val \in Valuations : \A o \in (-1)..1 :
                DimRelates(st.MemAccs[1].AccessRelation.dims[1], <<>>, val, o) <=> o = 0

\* C13: the statement of a block with no loop around it has no iterators, its
\* domain is the one point without coordinates under the block's conditions,
\* and an unconditional store at offset 0 is a Write to coordinate 0.
C13_ZeroDimensions ==
    \A s \in DOMAIN Stmts :
        (/\ LoopsAround(tree, topIsLoop, Stmts[s].BB) = <<>>
         /\ ConditionsAsExtracted(Stmts[s].BB))
        => C13_NoLoops(Stmts[s])

\* An unconditional store at the entry of the region, and a second block
\* under a condition on a parameter, no loop around either.
C13_Witness ==
    /\ pc = "done"
    /\ ~topIsLoop
    /\ Len(Stmts) = 2
    /\ \A s \in DOMAIN Stmts :
          /\ LoopsAround(tree, topIsLoop, Stmts[s].BB) = <<>>
          /\ ConditionsAsExtracted(Stmts[s].BB)
    /\ StoresAtZero(Stmts[1].BB)
    /\ BBConds[Stmts[2].BB] # <<>>

\* The blocks of the statements, in the order of the statement list.
StmtBlocks == [k \in DOMAIN Stmts |-> Stmts[k].BB]

\* The blocks with access functions that the traversal has passed, in its order.
BlocksPassed ==
    Filter([q \in 1..Len(tree) |-> q], {q \in 1..Len(tree) : q < pos /\ tree[q] = "B"})

\* C14: the statement list holds one statement for each block with access
\* functions on record that the traversal has passed, in the order of the
\* traversal, and none for any other block; after buildScop these are all
\* blocks of the region with access functions.
C14_StatementList ==
    pc # "aborted" =>
        /\ StmtBlocks = BlocksPassed
        /\ DOMAIN AccFuncMap = Range(BlocksPassed)
        /\ pc \in {"realign", "done"} => Range(StmtBlocks) = {q \in 1..Len(tree) : tree[q] = "B"}

\* buildScop has returned: a block without access functions between two
\* statements, one of them in a sub-region.
C14_Witness ==
    /\ pc = "realign"
    /\ Len(Stmts) >= 2
    /\ \E q \in 1..Len(tree) : tree[q] = "T" /\ Stmts[1].BB < q /\ q < Stmts[Len(Stmts)].BB
    /\ \E s \in DOMAIN Stmts : \E q \in 1..Len(tree) : Encloses(tree, q, Stmts[s].BB)

\* The fields of the Scop in place, once its constructor has returned.
FieldsInPlace == IF pc = "done" THEN Fields(Stmts) ELSE {}

\* The references that a field of a Scop of this pass holds or has held.
EverOwned == isl.owned \cup (IF pc = "done" THEN BuiltRefs(isl, Stmts) ELSE {})

Owners(r) == {f \in FieldsInPlace : SlotOf(isl, f) = r}

\* C15: an object that a field of the model holds or has held is either
\* released, once, and then in no field, or in exactly one field and not in the
\* hands of a caller; nothing is released twice or read after its release.
C15_SingleOwner ==
    /\ isl.faults = {}
    /\ \A r \in EverOwned :
          IF r \in isl.freed THEN Owners(r) = {}
          ELSE Cardinality(Owners(r)) = 1 /\ r \notin DOMAIN isl.held
    /\ pc \in {"idle", "destroyed"} => EverOwned \subseteq isl.freed

\* The pass is destroyed after a field of its Scop was given a reference that
\* a getter had handed out, and the caller holds no reference any more.
C15_Witness ==
    /\ pc = "destroyed"
    /\ \E r \in isl.owned : r.kind = "built" /\ r.field.field = "Scattering"
    /\ \E r \in isl.owned : r.kind = "copy"
    /\ isl.calls = MaxCalls
    /\ isl.held = <<>>

Mapping(M) == [inName |-> M.inName, outName |-> M.outName, nin |-> M.nin, dims |-> M.dims]

\* The statements of the Scop that the step leaves in place.
Kept == IF Len(Stmts') >= Len(Stmts) THEN DOMAIN Stmts ELSE {}

C17_Frame ==
    /\ \A k \in Kept : \A j \in DOMAIN Stmts[k].MemAccs :
          /\ Mapping(Stmts'[k].MemAccs[j].AccessRelation) = Mapping(Stmts[k].MemAccs[j].AccessRelation)
          /\ (\/ Stmts'[k].MemAccs[j].newAccessRelation # Stmts[k].MemAccs[j].newAccessRelation
              \/ SlotOf(isl', Field("newAccessRelation", k, j))
                    # SlotOf(isl, Field("newAccessRelation", k, j)))
             => isl'.op = "setNewAccessRelation" /\ isl'.calls = isl.calls + 1
    /\ \A k \in DOMAIN Stmts' \ Kept : \A j \in DOMAIN Stmts'[k].MemAccs :
          /\ Stmts'[k].MemAccs[j].newAccessRelation = NullMap
          /\ SlotOf(isl', Field("newAccessRelation", k, j)) = NullRef

\* C17: an access is built with an empty slot for the rewritten relation; no
\* step but a call of setNewAccessRelation changes the slot, and no step
\* changes what the original access relation relates.
C17_RewrittenSlot == [][C17_Frame]_vars

\* After a call of setNewAccessRelation: a second realignParams and a stride query.
C17_Witness ==
    /\ pc = "done"
    /\ isl.op = "isStrideX"
    /\ realigns = 2
    /\ \E k \in DOMAIN Stmts : \E j \in DOMAIN Stmts[k].MemAccs :
          Stmts[k].MemAccs[j].newAccessRelation.kind = "map"

\* The decimal form of n, the leading digit first.
RECURSIVE Decimal(_)
Decimal(n) ==
    IF n < 10 THEN <<Digits[n + 1]>> ELSE Append(Decimal(n \div 10), Digits[(n % 10) + 1])

\* The identifier of the value behind a parameter; none if it is no value.
ValueIdentifier(P) == IF P.kind = "unknown" THEN ValueName(P.val) ELSE <<>>

Reserved(name) == Len(name) >= 2 /\ name[1] = "p" /\ name[2] = "_"

\* The name of the parameter at dimension dim.
ExpectedName(P, dim) ==
    IF ValueIdentifier(P) # <<>> /\ ~Reserved(ValueIdentifier(P)) THEN ValueIdentifier(P)
    ELSE <<"p", "_">> \o Decimal(dim)

\* Expressions that may or may not be on record.
Candidates ==
    Range(Parameters) \cup
    {ParamN, ParamM, Trunc(ParamN), Unknown("p_x"), Unknown("unnamed"), SExt(ParamN)}

\* C18: a parameter on record is named after its value, or p_<dimension> when
\* the value has no identifier or one that starts with p_; an expression that
\* is not on record has no identifier.  convertInt gives the decimal form.
C18_ParameterNames ==
    /\ \A P \in Candidates :
          IF P \in Range(Parameters)
          THEN getIdForParam(Table(Parameters, ParameterIds), P).name
                  = ExpectedName(P, IndexOf(Parameters, P) - 1)
          ELSE getIdForParam(Table(Parameters, ParameterIds), P) = NullId
    /\ \A n \in 0..MaxDimension : convertInt(n) = Decimal(n)

\* On record: a named value, an expression that is no value, and a value whose
\* identifier starts with p_.
C18_Witness ==
    /\ Parameters = <<ParamN, Trunc(ParamN), Unknown("p_x")>>
    /\ getIdForParam(Table(Parameters, ParameterIds), Unknown("p_x")).name = <<"p", "_", "2">>

\* The identifiers the parameter table hands out.
TableIds == {getIdForParam(Table(Parameters, ParameterIds), P) : P \in Range(Parameters)}

\* C19: when a translation has returned, every opaque sub-expression of the
\* expression is on record, every parameter term of the result carries the
\* identifier the table gives to an expression on record, and distinct
\* expressions on record have distinct dimensions and distinct identifiers.
C19_OpaqueOnRecord ==
    pc = "translated" =>
        /\ Range(getParamsInAffineExpr(Expr)) \subseteq Range(Parameters)
        /\ PwAff.kind = "aff" => Range(PwAff.params) \subseteq TableIds
        /\ \A P, Q \in Range(Parameters) :
              P # Q => /\ ParameterIds[P] # ParameterIds[Q]
                       /\ getIdForParam(Table(Parameters, ParameterIds), P)
                             # getIdForParam(Table(Parameters, ParameterIds), Q)
        /\ \A P \in Range(Parameters) : ParameterIds[P] \in 0..(Len(Parameters) - 1)

\* The sum 1 + N was translated on a table that held trunc(N) only: N was put
\* on record behind it and the result has the term of N with coefficient 1.
C19_Witness ==
    /\ pc = "translated"
    /\ Expr = SAdd(<<C64(1), ParamN>>)
    /\ Parameters = <<Trunc(ParamN), ParamN>>
    /\ PwAff.kind = "aff"
    /\ PwAff.params = <<getIdForParam(Table(Parameters, ParameterIds), ParamN)>>
    /\ PwAff.pc = <<1>>

\* The sub-expressions of an expression, itself included.
RECURSIVE SubExprs(_)
SubExprs(e) ==
    {e} \cup (IF e.kind \in {"const", "unknown"} THEN {}
              ELSE UNION {SubExprs(e.ops[i]) : i \in DOMAIN e.ops})

\* The operands of the comparisons on record for block b.
OperandsAt(b) == UNION {{BBConds[b][c].lhs, BBConds[b][c].rhs} : c \in DOMAIN BBConds[b]}

\* The expressions the construction of statement st hands to the translator:
\* the bounds of its loops, the operands of the comparisons of its block and of
\* the entries of the regions around it, and the offsets of its affine accesses.
TranslatedFor(st) ==
    {LoopBounds[st.IVS[k]] : k \in DOMAIN st.IVS}
    \cup UNION {OperandsAt(b) : b \in ({st.BB} \cup {EntryOf(tree)[q] : q \in RegionsAround(st.BB)})
                                     \cap DOMAIN BBConds}
    \cup {AccFuncMap[st.BB][k].offset :
             k \in {j \in DOMAIN AccFuncMap[st.BB] : AccFuncMap[st.BB][j].affine}}

\* The recurrences among them.
RecurrencesOf(st) ==
    {e \in UNION {SubExprs(x) : x \in TranslatedFor(st)} : e.kind = "addrec"}

\* The dimension the translator gives to loop L.
Dimension(L) == getLoopDepth(tree, topIsLoop)[L]

\* C20: a recurrence start + step * i over loop L, translated for a statement,
\* is start + step times the iterator at dimension depth(L) - depth(outermost
\* loop of the region around L); the dimension is below the statement's number
\* of iterators and L stands at that position of the iteration vector.
C20_RecurrenceDimension ==
    \A s \in DOMAIN Stmts : \A e \in RecurrencesOf(Stmts[s]) :
        /\ Dimension(e.loop)
              = LoopDepth(tree, topIsLoop, e.loop)
                   - LoopDepth(tree, topIsLoop, outermostLoopInRegion(tree, topIsLoop, e.loop))
        /\ Dimension(e.loop) < Len(Stmts[s].IVS)
        /\ Stmts[s].IVS[Dimension(e.loop) + 1] = e.loop
        /\ \A iv \in PointsAround(Len(Stmts[s].IVS)) : \A val \in Valuations :
              ValueAt(Stmts[s], e, iv, val)
                 = ValueAt(Stmts[s], e.ops[1], iv, val)
                      + ValueAt(Stmts[s], e.ops[2], iv, val) * iv[Dimension(e.loop) + 1]

\* A statement in two loops: the bound of the inner loop is a recurrence over
\* the outer one, and an offset is a recurrence with step 4 over the inner one.
C20_Witness ==
    \E s \in DOMAIN Stmts :
        /\ Len(Stmts[s].IVS) = 2
        /\ \E e, f \in RecurrencesOf(Stmts[s]) :
              /\ e.loop = Stmts[s].IVS[1] /\ Dimension(e.loop) = 0
              /\ f.loop = Stmts[s].IVS[2] /\ Dimension(f.loop) = 1
              /\ f.ops[2] = C64(4)

\* The number that the w bits of pattern bits stand for in two's complement:
\* the one congruent to the pattern modulo 2^w in -2^(w-1) .. 2^(w-1) - 1.
TwosComplement(w, bits) ==
    CHOOSE v \in (-Pow2(w - 1))..(Pow2(w - 1) - 1) : (v - bits) % Pow2(w) = 0

\* The translation of expression e for the statement of the translator.
Translation(e) ==
    visit(Table(Parameters, ParameterIds), Len(NestLoops), getLoopDepth(tree, topIsLoop),
          e, AbortAff)

\* C21: a constant is translated to the constant affine value of its signed
\* reading, pattern - 2^w when the top bit is set, and a sign extension of a
\* constant or a value to the translation of its operand.
C21_SignedConstant ==
    pc = "translated" =>
        /\ (Expr.kind = "const" /\ Expr.w <= 30) =>
              /\ PwAff = Aff(<<>>, TwosComplement(Expr.w, Expr.bits),
                             ZeroSeq(Len(NestLoops)), <<>>, 1)
              /\ Expr.bits >= Pow2(Expr.w - 1) => PwAff.cst = Expr.bits - Pow2(Expr.w)
              /\ Expr.bits < Pow2(Expr.w - 1) => PwAff.cst = Expr.bits
        /\ (Expr.kind = "sext" /\ Expr.ops[1].kind \in {"const", "unknown"}) =>
              PwAff = Translation(Expr.ops[1])

\* The 1-bit constant 1 was translated to -1, and so was its sign extension.
C21_Witness ==
    /\ pc = "translated"
    /\ Expr = SExt(Const(1, 1))
    /\ PwAff.cst = -1
    /\ Translation(Const(1, 1)).cst = -1
    /\ Translation(Const(8, 255)).cst = -1

\* The blocks of the region for which buildCondition has been called.
Conditioned == {Func.R[i] : i \in 1..(pos - 1)} \cap {Func.R[i] : i \in DOMAIN Func.R}

\* The blocks on the dominator-tree path from BB up to the region entry, BB
\* itself left out.
Ancestors(BB) ==
    {X \in DOMAIN Func.succ :
        X # BB /\ Dominates(Func.succ, X, BB) /\ Dominates(Func.succ, Func.entry, X)}

\* The node of the path from which the walk steps up to X.
Below(X, BB) ==
    LET under == {c \in Ancestors(BB) \cup {BB} : c # X /\ Dominates(Func.succ, X, c)}
    IN  CHOOSE c \in under : \A d \in under : Dominates(Func.succ, c, d)

\* The blocks of S, which lie on one path of the dominator tree, from the
\* lowest to the highest.
Upwards(S) ==
    [i \in 1..Cardinality(S) |->
        CHOOSE X \in S : Cardinality({Y \in S : Y # X /\ Dominates(Func.succ, X, Y)}) = i - 1]

\* The comparisons of the conditional branches of S for block BB.
ComparisonsOf(S, BB) ==
    [i \in 1..Cardinality(S) |->
        buildAffineCondition(Func.cond[Upwards(S)[i]],
                             Dominates(Func.succ, Func.succ[Upwards(S)[i]][2], BB))]

\* BB has the list Cond on record, and no entry when the list is empty.
Recorded(BB, Cond) ==
    IF Cond = <<>> THEN BB \notin DOMAIN BBConds
    ELSE BB \in DOMAIN BBConds /\ BBConds[BB] = Cond

\* The conditional branches on the path that BB does not post-dominate.
NotPostDominatedByBB(BB) ==
    {X \in Ancestors(BB) : Len(Func.succ[X]) = 2 /\ ~PostDominates(Func.succ, BB, X)}

\* The conditional branches on the path that the node below them on the path
\* does not post-dominate.
NotPostDominatedFromBelow(BB) ==
    {X \in Ancestors(BB) : Len(Func.succ[X]) = 2 /\ ~PostDominates(Func.succ, Below(X, BB), X)}

BranchesOf(BB) == Upwards(NotPostDominatedFromBelow(BB))

\* BB is on the ELSE side of the branch of X.
OnElseSide(X, BB) == Dominates(Func.succ, Func.succ[X][2], BB)

\* The constant condition of X is true whenever control goes from X to BB.
AlwaysTrueFor(X, BB) ==
    \/ Func.cond[X].value = 1 /\ ~OnElseSide(X, BB)
    \/ Func.cond[X].value = 0 /\ OnElseSide(X, BB)

\* Every comparison on record for a constant condition is the one of i1
\* constants 0 and 1 with predicate whenTrue if the condition is always true
\* for the block and whenFalse if not.
ConstantComparisons(whenTrue, whenFalse) ==
    \A BB \in Conditioned \cap DOMAIN BBConds : \A i \in DOMAIN BBConds[BB] :
        Func.cond[BranchesOf(BB)[i]].kind = "ConstantInt" =>
            BBConds[BB][i] = Comparison(Const(1, 0), Const(1, 1),
                                        IF AlwaysTrueFor(BranchesOf(BB)[i], BB)
                                        THEN whenTrue ELSE whenFalse)

ConditionBlocks(b) == {b} \cup {EntryOf(tree)[q] : q \in RegionsAround(b) \cup {0}}

\* The condition set of comparison Comp for statement st.
ConditionSet(st, Comp) ==
    buildConditionSet(Table(Parameters, ParameterIds), Len(st.IVS),
                      getLoopDepth(tree, topIsLoop), Comp, Failing).set

\* The extraction pass records no comparison for the entry of the maximal region.
NothingAtEntry == EntryOf(tree)[0] \in DOMAIN BBConds => BBConds[EntryOf(tree)[0]] = <<>>

\* C24: the domain of a statement whose block is not the entry of the maximal
\* region lies within the condition set of every comparison on record for its
\* block and for the entry of each region around it, and intersecting the
\* domain with such a condition set once more leaves it as it is.
C24_DomainWithinConditions ==
    NothingAtEntry =>
        \A s \in DOMAIN Stmts :
            (Stmts[s].BB # EntryOf(tree)[0] /\ Stmts[s].Domain.kind = "set") =>
                \A b \in ConditionBlocks(Stmts[s].BB) \cap DOMAIN BBConds :
                    \A c \in DOMAIN BBConds[b] :
                        \A iv \in PointsAround(Len(Stmts[s].IVS)) : \A val \in Valuations :
                            /\ InSet(Stmts[s].Domain, iv, val)
                                  => InSet(ConditionSet(Stmts[s], BBConds[b][c]), iv, val)
                            /\ InSet(isl_set_intersect(Stmts[s].Domain,
                                                       ConditionSet(Stmts[s], BBConds[b][c])),
                                     iv, val)
                                  <=> InSet(Stmts[s].Domain, iv, val)

\* The second block of a sub-region: the same comparison on a parameter is on
\* record for it and for the entry of the sub-region, so that it is added
\* twice; the domain holds some points and not others.
C24_Witness ==
    /\ NothingAtEntry
    /\ \E s \in DOMAIN Stmts :
          /\ Stmts[s].BB = 4
          /\ 4 \in DOMAIN BBConds /\ 3 \in DOMAIN BBConds
          /\ Comparison(ParamM, C64(0), "SGT") \in Range(BBConds[3]) \cap Range(BBConds[4])
          /\ Stmts[s].Domain.kind = "set"
          /\ \E iv \in PointsAround(Len(Stmts[s].IVS)) : \E val \in Valuations :
                InSet(Stmts[s].Domain, iv, val)
          /\ \E iv \in PointsAround(Len(Stmts[s].IVS)) : \E val \in Valuations :
                ~InSet(Stmts[s].Domain, iv, val)

\* The translation of one side of a comparison of statement st.
SideOf(st, e) ==
    getPwAff(Table(Parameters, ParameterIds), Len(st.IVS), getLoopDepth(tree, topIsLoop),
             e, AbortAff).aff

\* The values the parameters N and M may take.
ComparedValuations ==
    [{getIdForParam(addParams(Table(<<>>, <<>>), <<ParamN, ParamM>>), P) : P \in {ParamN, ParamM}}
        -> 0..MaxParamVal]

\* C25: for a comparison with one of the six supported predicates, the set
\* that buildConditionSet returns holds exactly the points and parameter
\* values at which the translated left side stands in that relation to the
\* translated right side.
C25_ConditionSetExact ==
    \A s \in DOMAIN Stmts : \A c \in DOMAIN BBConds[Stmts[s].BB] :
        LET st == Stmts[s]
            Comp == BBConds[st.BB][c]
        IN  (Comp.pred \in SignedPredicates /\ SideOf(st, Comp.lhs).kind = "aff"
                 /\ SideOf(st, Comp.rhs).kind = "aff") =>
               /\ ConditionSet(st, Comp).kind = "set"
               /\ \A iv \in PointsAround(Len(st.IVS)) : \A val \in ComparedValuations :
                     InSet(ConditionSet(st, Comp), iv, val)
                        <=> PredHolds(Comp.pred, EvalNum(SideOf(st, Comp.lhs), iv, val),
                                      EvalNum(SideOf(st, Comp.rhs), iv, val))

\* The comparison i <= N of a block in a loop: its set holds the point i = N and
\* not the point i = N + 1.
C25_Witness ==
    \E s \in DOMAIN Stmts : \E val \in ComparedValuations :
        /\ Len(Stmts[s].IVS) = 1
        /\ BBConds[Stmts[s].BB]
              = <<Comparison(AddRec(C64(0), C64(1), Stmts[s].IVS[1]), ParamN, "SLE")>>
        /\ EvalNum(SideOf(Stmts[s], ParamN), <<0>>, val) = 1
        /\ InSet(ConditionSet(Stmts[s], BBConds[Stmts[s].BB][1]), <<1>>, val)
        /\ ~InSet(ConditionSet(Stmts[s], BBConds[Stmts[s].BB][1]), <<2>>, val)


\* BB can be reached from X through successor k of X without coming back to X.
Via(X, k, BB) == BB \in Reach(Func.succ, {Func.succ[X][k]} \ {X}, {X})

\* The successor that the branch of X on a constant always takes: the first
\* for the constant one, the second for the constant zero.
TakenSuccessor(X) == IF Func.cond[X].value = 1 THEN 1 ELSE 2

\* The constraint that comparison Comp becomes in a statement with Nb loops
\* around it.
ConstraintOf(Comp, Nb) ==
    buildConditionSet(Table(<<>>, <<>>), Nb, <<>>, Comp, Failing).set

\* Every point of an iteration space of Nb dimensions satisfies S, or none does.
EveryPoint(S, Nb) == S.kind = "set" /\ \A iv \in PointsAround(Nb) : InSet(S, iv, <<>>)

NoPoint(S, Nb) == S.kind = "set" /\ \A iv \in PointsAround(Nb) : ~InSet(S, iv, <<>>)

\* C26: for a branch on a 1-bit constant, the constraint that the comparison
\* on record becomes is satisfied by every point when the block lies on the
\* side the branch always takes, and by no point when it lies on the side the
\* branch never takes.
C26_ConstantBranchConstraint ==
    \A BB \in Conditioned \cap DOMAIN BBConds : \A i \in DOMAIN BBConds[BB] :
        LET X == BranchesOf(BB)[i]
        IN  Func.cond[X].kind = "ConstantInt" =>
                \A Nb \in 0..1 :
                    /\ (Via(X, TakenSuccessor(X), BB) /\ ~Via(X, 3 - TakenSuccessor(X), BB))
                          => EveryPoint(ConstraintOf(BBConds[BB][i], Nb), Nb)
                    /\ (Via(X, 3 - TakenSuccessor(X), BB) /\ ~Via(X, TakenSuccessor(X), BB))
                          => NoPoint(ConstraintOf(BBConds[BB][i], Nb), Nb)

\* A block on the side that a branch on the constant one always takes, with a
\* constraint that every point satisfies, and a block on the side that a branch
\* on the constant zero never takes, with a constraint that no point satisfies.
C26_Witness ==
    \E BB, CC \in Conditioned \cap DOMAIN BBConds :
        /\ Func.cond[BranchesOf(BB)[1]] = ConstantInt(1)
        /\ Via(BranchesOf(BB)[1], 1, BB) /\ ~Via(BranchesOf(BB)[1], 2, BB)
        /\ EveryPoint(ConstraintOf(BBConds[BB][1], 1), 1)
        /\ Func.cond[BranchesOf(CC)[1]] = ConstantInt(0)
        /\ Via(BranchesOf(CC)[1], 1, CC) /\ ~Via(BranchesOf(CC)[1], 2, CC)
        /\ NoPoint(ConstraintOf(BBConds[CC][1], 1), 1)


\* The values of the parameter N at which conditions are compared.
ConditionValues == 0..(Len(Func.succ) + 1)

\* The value of an operand of a condition when N is n.
OperandValue(e, n) == IF e.kind = "const" THEN SignedValue(e.w, e.bits) ELSE n

\* Whether l stands in relation pred to r; the unsigned relations are taken
\* between values that are not negative.
RelationHolds(pred, l, r) ==
    CASE pred \in {"EQ"} -> l = r
      [] pred \in {"NE"} -> l # r
      [] pred \in {"SLT", "ULT"} -> l < r
      [] pred \in {"SLE", "ULE"} -> l <= r
      [] pred \in {"SGT", "UGT"} -> l > r
      [] pred \in {"SGE", "UGE"} -> l >= r

\* Whether the branch with condition V takes its true successor when N is n.
ConditionTrue(V, n) ==
    IF V.kind = "ConstantInt" THEN V.value = 1
    ELSE RelationHolds(V.pred, OperandValue(V.lhs, n), OperandValue(V.rhs, n))

ComparisonTrue(Comp, n) ==
    RelationHolds(Comp.pred, OperandValue(Comp.lhs, n), OperandValue(Comp.rhs, n))

\* Comparison Comp is condition V, or its negation.
Unnegated(Comp, V) == \A n \in ConditionValues : ComparisonTrue(Comp, n) <=> ConditionTrue(V, n)

Negated(Comp, V) == \A n \in ConditionValues : ComparisonTrue(Comp, n) <=> ~ConditionTrue(V, n)

\* The list on record for BB, empty when there is no entry.
CondOf(BB) == IF BB \in DOMAIN BBConds THEN BBConds[BB] ELSE <<>>

\* The conditional branches of the function.
ConditionalBranches == {X \in DOMAIN Func.succ : Len(Func.succ[X]) = 2}

C28_ScatterBigEnough ==
    /\ Len(NestLoops) <= MaxLoopDepth
    /\ Len(Scatter) = MaxLoopDepth + 1
    /\ Len(Scatter) > Len(NestLoops)
    /\ \A s \in DOMAIN Stmts : Len(Stmts[s].IVS) <= MaxLoopDepth
    /\ \A k \in 0..MaxLoopDepth : k > Len(NestLoops) => Scatter[k + 1] = 0

\* A statement is about to be created above the deepest level, after a
\* statement of the deepest level, two loops deep, has been created and its
\* loop has been left.
C28_Witness ==
    /\ pc = "buildScop"
    /\ pos \in 1..Len(tree) /\ tree[pos] = "B"
    /\ MaxLoopDepth >= 2
    /\ Len(NestLoops) < MaxLoopDepth
    /\ Scatter[Len(NestLoops) + 1] > 0
    /\ \E s \in DOMAIN Stmts : Len(Stmts[s].IVS) = MaxLoopDepth


\* The accesses on record for block BB.
AccessesOf(BB) == IF BB \in DOMAIN AccFuncMap THEN AccFuncMap[BB] ELSE <<>>

\* Block BB has an access of the given kind with base Base on record.
HasAccess(BB, type, Base) ==
    \E i \in DOMAIN AccessesOf(BB) :
        AccessesOf(BB)[i].type = type /\ AccessesOf(BB)[i].base = Base

\* The definitions of the region: the block and the instruction.
DefinitionsOfRegion ==
    UNION {{[bb |-> b, Inst |-> Func.insts[b][k]] : k \in DOMAIN Func.insts[b]} :
              b \in Range(Func.R)}

\* Definition D has a user that is an instruction of another block and cannot
\* be synthesized.
UsedInOtherBlock(D) ==
    \E u \in DOMAIN D.Inst.users :
        D.Inst.users[u].inst /\ D.Inst.users[u].bb # D.bb /\ ~D.Inst.users[u].synth

\* Every scalar read on record has a scalar write with the same base on record
\* for the block of the instruction that is the base.
ReadsHaveWrites ==
    \A BB \in Range(Func.R) : \A i \in DOMAIN AccessesOf(BB) :
        AccessesOf(BB)[i].type = "SCALARREAD" =>
            \E D \in DefinitionsOfRegion :
                /\ D.Inst.name = AccessesOf(BB)[i].base
                /\ HasAccess(D.bb, "SCALARWRITE", D.Inst.name)

\* C29 as stated: after the extraction every scalar read has the scalar write
\* of its definition, and a definition has a scalar write on record exactly
\* when it has a user that cannot be synthesized in another block.
C29_WriteForEveryCrossUse ==
    pc = "extracted" =>
        /\ ReadsHaveWrites
        /\ \A D \in DefinitionsOfRegion :
              HasAccess(D.bb, "SCALARWRITE", D.Inst.name) <=> UsedInOtherBlock(D)

\* C29: after the extraction every scalar read has the scalar write of its
\* definition, and a definition has a scalar write on record exactly when it
\* cannot be synthesized itself and has a user that cannot be synthesized in
\* another block, in the region or not.
C29_WriteForUnsynthesizable ==
    pc = "extracted" =>
        /\ ReadsHaveWrites
        /\ \A D \in DefinitionsOfRegion :
              HasAccess(D.bb, "SCALARWRITE", D.Inst.name)
                  <=> (~D.Inst.synth /\ UsedInOtherBlock(D))

\* A definition whose only users in another block lie behind the region: the
\* scalar write is on record and no scalar read is.
C29_Witness ==
    /\ pc = "extracted"
    /\ \E D \in DefinitionsOfRegion :
          /\ UsedInOtherBlock(D)
          /\ \A u \in DOMAIN D.Inst.users : D.Inst.users[u].bb \notin Range(Func.R) \ {D.bb}
          /\ HasAccess(D.bb, "SCALARWRITE", D.Inst.name)
          /\ \A BB \in Range(Func.R) : ~HasAccess(BB, "SCALARREAD", D.Inst.name)


\* The identifier of the block of statement st, and the name of array Base.
BlockIdentifier(st) == ValueName(Func.blocks[st.BB])

ArrayNames == {setBaseName(Func.bases[k]) : k \in DOMAIN Func.bases}

\* No array name equals a statement name.
ArraysApartFromStatements == \A s \in DOMAIN Stmts : Stmts[s].BaseName \notin ArrayNames

\* C30, as stated: names are unique after sanitisation.  Statements of blocks
\* with distinct identifiers have distinct names, accesses with distinct base
\* identifiers have distinct array names, and no array name equals a
\* statement name.
C30_NamesUnique ==
    /\ \A s, t \in DOMAIN Stmts :
          BlockIdentifier(Stmts[s]) # BlockIdentifier(Stmts[t])
              => Stmts[s].BaseName # Stmts[t].BaseName
    /\ \A s \in DOMAIN Stmts : \A a, b \in DOMAIN Stmts[s].MemAccs :
          ValueName(Stmts[s].MemAccs[a].BaseAddr) # ValueName(Stmts[s].MemAccs[b].BaseAddr)
              => Stmts[s].MemAccs[a].BaseName # Stmts[s].MemAccs[b].BaseName
    /\ ArraysApartFromStatements

====
